---- MODULE Spec2Model ----
(***************************************************************************)
(* A model of dt-schema: the schema normalizer (dtschema/fixups.py), the   *)
(* selector builder, the property type inference (dtschema/validator.py),  *)
(* the validation dispatch (dt-validate.py, DTValidator.iter_errors) and   *)
(* the ABI comparison tool (dtschema/cmp_schema.py).                       *)
(*                                                                         *)
(* Schema documents are JSON-like values.  Every value carries its Python  *)
(* type in the field k and its content in the field v, so that the         *)
(* isinstance tests of the code can be modelled:                           *)
(*   int  [k |-> "int",  v |-> 5]       str  [k |-> "str", v |-> "a"]      *)
(*   bool [k |-> "bool", v |-> TRUE]    list [k |-> "list", v |-> <<..>>]  *)
(*   dict [k |-> "dict", v |-> f]  with f a function from keys to values   *)
(* The code changes dictionaries in place; the operators below return the  *)
(* dictionary as it is after the call.                                     *)
(* The field k is written before v throughout, the comment above          *)
(* included: TLC orders the fields of a record by first mention, and       *)
(* compares values of different Python types by k alone only if k comes    *)
(* first.                                                                  *)
(***************************************************************************)
EXTENDS Integers, Sequences, FiniteSets, TLC

VARIABLES
    propname,   \* normalizer: the property name handed to walk_properties
    orig,       \* normalizer: the schema as the author wrote it
    schema,     \* normalizer: the schema as it is now
    first,      \* normalizer: the schema node after the first walk_properties
    applied,    \* normalizer: how many times the fixup has run
    older,      \* normalizer: the schema as the fixup_schema of lib.py leaves it
    dim1,       \* type inference: the dimensions recorded for a property
    dim2,       \* type inference: the dimensions of a further declaration
    dim,        \* type inference: _merge_dim(dim1, dim2) once computed
    dimrev,     \* type inference: _merge_dim(dim2, dim1) once computed
    schemas,    \* dispatch: the corpus, a mapping from key to schema
    node,       \* dispatch: the subject node
    errors,     \* dispatch: the errors reported for the node
    unmatched,  \* dispatch: whether 'failed to match any schema' was printed
    filter,     \* dispatch: the filter handed to iter_errors ("" for none)
    checked,    \* dispatch: the operation that has run on the node
    baseline,   \* comparison: the baseline corpus
    newer,      \* comparison: the new corpus
    printed,    \* comparison: the diagnostics printed
    compared,   \* comparison: the $ids main has been through
    files,      \* loading: the schema files, each with the errors the meta-schema finds
    docs,       \* loading: the document of each file as it is in memory
    done,       \* loading: the files process_schema has been called on
    log,        \* loading: the messages printed
    loader,     \* loading: the module whose process_schemas runs
    built,      \* loading: the index is complete
    tyCorpus,   \* type inference: the schemas handed to extract_types, in order
    tyProps,    \* type inference: the facts after the schemas gone through so far
    tyDone,     \* type inference: how many of the schemas have been gone through
    tyPermuted, \* type inference: the facts of the same schemas in reverse order
    tyTypes,    \* type inference: what get_prop_types returns, or raises
    tyFixed,    \* type inference: the last property_has_fixed_dimensions call
    scopes,     \* resolver: the stack of resolution scopes
    annotated   \* resolver: the last call and how it ended

fixupVars == <<propname, orig, schema, first, applied, older>>
dimVars == <<dim1, dim2, dim, dimrev>>
dispatchVars == <<schemas, node, errors, unmatched, filter, checked>>
cmpVars == <<baseline, newer, printed, compared>>
loadVars == <<files, docs, done, log, loader, built>>
typeVars == <<tyCorpus, tyProps, tyDone, tyPermuted, tyTypes, tyFixed>>
refVars == <<scopes, annotated>>
vars == <<fixupVars, dimVars, dispatchVars, cmpVars, loadVars, typeVars, refVars>>

-----------------------------------------------------------------------------
(* JSON values and the dictionary operations of Python                     *)

I(n) == [k |-> "int", v |-> n]
S(s) == [k |-> "str", v |-> s]
B(b) == [k |-> "bool", v |-> b]
L(q) == [k |-> "list", v |-> q]
D(f) == [k |-> "dict", v |-> f]

EmptyDict == D(<<>>)
None == [k |-> "none"]

\* key in d
In(key, d) == d.k = "dict" /\ key \in DOMAIN d.v
\* d[key] = val
Set(d, key, val) == D([y \in DOMAIN d.v \cup {key} |-> IF y = key THEN val ELSE d.v[y]])
\* d.pop(key, None)
Pop(d, key) == D([y \in DOMAIN d.v \ {key} |-> d.v[y]])
\* d.setdefault(key, val)
SetDefault(d, key, val) == IF In(key, d) THEN d ELSE Set(d, key, val)
\* {k: d[k] for k in keys if k in d}
Only(d, keys) == D([y \in DOMAIN d.v \cap keys |-> d.v[y]])
\* d after d.pop(k) for every k in keys
Without(d, keys) == D([y \in DOMAIN d.v \ keys |-> d.v[y]])
\* d.get(key, default) for an integer-valued key
GetInt(d, key, default) == IF In(key, d) THEN d.v[key].v ELSE default
\* the list q with element i replaced
ListSet(q, i, val) == L([j \in 1..Len(q.v) |-> IF j = i THEN val ELSE q.v[j]])

Min2(a, b) == IF a <= b THEN a ELSE b
Max2(a, b) == IF a >= b THEN a ELSE b

-----------------------------------------------------------------------------
(* dtschema/lib.py: the predicates the fixups import                       *)

IntType == {"int", "bool"}     \* isinstance(val, int) is also true of a bool
StrType == {"str"}

_value_is_type(subschema, key, type) ==
    /\ In(key, subschema)
    /\ LET val == IF subschema.v[key].k = "list" THEN subschema.v[key].v[1]
                  ELSE subschema.v[key]
       IN val.k \in type

_is_int_schema(subschema) ==
    \E match \in {"const", "enum", "minimum", "maximum"} :
        _value_is_type(subschema, match, IntType)

_is_string_schema(subschema) ==
    \E match \in {"const", "enum", "pattern"} :
        _value_is_type(subschema, match, StrType)

_get_array_range(subschema) ==
    IF subschema.k = "list" /\ Len(subschema.v) # 1 THEN <<0, 0>>
    ELSE LET s == IF subschema.k = "list" THEN subschema.v[1] ELSE subschema
         IN IF In("items", s) /\ s.v["items"].k = "list"
            THEN LET max == Len(s.v["items"].v)
                 IN <<GetInt(s, "minItems", max), max>>
            ELSE <<GetInt(s, "minItems", 1),
                   GetInt(s, "maxItems", GetInt(s, "minItems", 0))>>

-----------------------------------------------------------------------------
(* dtschema/fixups.py: the leaf and array fixups                           *)

scalar_keywords == {"const", "enum", "pattern", "minimum", "maximum", "multipleOf"}

\* The dictionary _extract_single_schemas returns; the keys are popped from
\* subschema, which is Without(subschema, scalar_keywords) afterwards.
_extract_single_schemas(subschema) == Only(subschema, scalar_keywords)

_fixup_string_to_array(pname, subschema) ==
    IF ~_is_string_schema(subschema) THEN subschema
    ELSE Set(Without(subschema, scalar_keywords), "items",
             L(<<_extract_single_schemas(subschema)>>))

_fixup_reg_schema(pname, subschema) ==
    IF pname # "reg" THEN subschema
    ELSE IF In("items", subschema)
    THEN LET item_schema == IF subschema.v["items"].k = "list"
                            THEN subschema.v["items"].v[1]
                            ELSE subschema.v["items"]
         IN IF ~_is_int_schema(item_schema) THEN subschema
            ELSE Set(subschema, "items",
                     L(<<D([items |-> L(<<_extract_single_schemas(item_schema)>>)])>>))
    ELSE IF _is_int_schema(subschema)
    THEN Set(Without(subschema, scalar_keywords), "items",
             L(<<D([items |-> L(<<_extract_single_schemas(subschema)>>)])>>))
    ELSE subschema

matrix_keys == {"items", "maxItems", "minItems"}

_is_matrix_schema(subschema) ==
    /\ In("items", subschema)
    /\ LET items == subschema.v["items"]
       IN IF items.k = "list"
          THEN \E i \in 1..Len(items.v) : DOMAIN items.v[i].v \cap matrix_keys # {}
          ELSE DOMAIN items.v \cap matrix_keys # {}

_fixup_int_matrix(pname, subschema) ==
    IF ~_is_matrix_schema(subschema) THEN subschema
    ELSE LET outer_dim == _get_array_range(subschema)
             inner_dim == _get_array_range(IF In("items", subschema)
                                           THEN subschema.v["items"] ELSE EmptyDict)
         IN IF outer_dim[1] # outer_dim[2] /\ inner_dim[1] # inner_dim[2]
            THEN Set(Without(subschema, matrix_keys), "type", S("array"))
            ELSE subschema

\* int_array_re.search(ref): the $ref strings of the model that name an
\* integer array type
int_array_refs == {"/schemas/types.yaml#/definitions/uint32-array"}
int_array_re_search(ref) == ref.k = "str" /\ ref.v \in int_array_refs

\* unit_types_re.search(propname): the property names of the model that end
\* in a unit suffix
unit_type_names == {"foo-hz"}
unit_types_re_search(pname) == pname \in unit_type_names

known_array_props == {"assigned-clock-rates", "linux,keycodes",
                      "max8997,pmic-buck1-dvs-voltage",
                      "max8997,pmic-buck2-dvs-voltage",
                      "max8997,pmic-buck5-dvs-voltage"}

\* Indices of the members of subschema['allOf'] that have one of keys
AllOfWith(subschema, keys) ==
    IF In("allOf", subschema)
    THEN {i \in 1..Len(subschema.v["allOf"].v) :
             DOMAIN subschema.v["allOf"].v[i].v \cap keys # {}}
    ELSE {}

SetMin(s) == CHOOSE x \in s : \A y \in s : x <= y
SetMax(s) == CHOOSE x \in s : \A y \in s : x >= y

is_int_array_schema(pname, subschema) ==
    LET withItems == AllOfWith(subschema, {"items"})
        refOnly == AllOfWith(subschema, {"$ref"}) \ withItems
        sub == IF withItems # {} THEN subschema.v["allOf"].v[SetMax(withItems)]
               ELSE subschema
    IN IF refOnly # {}
       THEN int_array_re_search(subschema.v["allOf"].v[SetMin(refOnly)].v["$ref"])
       ELSE IF In("$ref", sub) THEN int_array_re_search(sub.v["$ref"])
       ELSE IF unit_types_re_search(pname) \/ pname \in known_array_props THEN TRUE
       ELSE /\ In("items", sub)
            /\ \/ sub.v["items"].k = "list" /\ _is_int_schema(sub.v["items"].v[1])
               \/ sub.v["items"].k = "dict" /\ _is_int_schema(sub.v["items"])

\* _fixup_items_size without its recursion into 'items'
ItemsSizeTopOnly(sch) ==
    IF sch.k = "dict" /\ In("items", sch)
    THEN LET s1 == Set(Pop(sch, "description"), "type", S("array"))
             c == Len(s1.v["items"].v)
         IN IF s1.v["items"].k = "list"
            THEN SetDefault(SetDefault(s1, "minItems", I(c)), "maxItems", I(c))
            ELSE s1
    ELSE sch

\* _fixup_items_size that leaves every node without its type and bounds
ItemsSizeSkipped(sch) == IF sch.k = "dict" THEN Pop(sch, "description") ELSE sch

RECURSIVE _fixup_items_size(_)
_fixup_items_size(sch) ==
    IF sch.k = "list"
    THEN L([i \in 1..Len(sch.v) |-> _fixup_items_size(sch.v[i])])
    ELSE IF sch.k = "dict"
    THEN LET s0 == Pop(sch, "description")
         IN IF In("items", s0)
            THEN LET s1 == Set(s0, "type", S("array"))
                     c == Len(s1.v["items"].v)
                     s2 == IF s1.v["items"].k = "list"
                           THEN SetDefault(SetDefault(s1, "minItems", I(c)), "maxItems", I(c))
                           ELSE s1
                 IN Set(s2, "items", _fixup_items_size(s2.v["items"]))
            ELSE IF In("maxItems", s0) /\ ~In("minItems", s0)
            THEN Set(s0, "minItems", s0.v["maxItems"])
            ELSE IF In("minItems", s0) /\ ~In("maxItems", s0)
            THEN Set(s0, "maxItems", s0.v["minItems"])
            ELSE s0
    ELSE sch

\* The body of _fixup_int_array_min_max_to_matrix once subschema is bound to
\* the dictionary that carries minItems/maxItems
MinMaxToMatrix(t) ==
    IF In("items", t) /\ t.v["items"].k = "list" THEN t
    ELSE IF _is_matrix_schema(t) THEN t
    ELSE IF In("maxItems", t) /\ t.v["maxItems"] = I(1) THEN t
    ELSE LET tmpsch == Only(t, {"minItems", "maxItems"})
             rest == Without(t, {"minItems", "maxItems"})
             cell0 == Set(tmpsch, "items", D([maxItems |-> I(1)]))
             cell == IF In("minItems", cell0) /\ cell0.v["minItems"] = I(1)
                     THEN Set(cell0, "minItems", I(cell0.v["minItems"].v + 1))
                     ELSE cell0
             row == D([items |-> L(<<tmpsch>>)])
         IN IF DOMAIN tmpsch.v = {} THEN t
            ELSE Set(rest, "oneOf", _fixup_items_size(L(<<cell, row>>)))

_fixup_int_array_min_max_to_matrix(pname, subschema) ==
    IF ~is_int_array_schema(pname, subschema) THEN subschema
    ELSE LET cand == AllOfWith(subschema, {"minItems", "maxItems"})
         IN IF cand = {} THEN MinMaxToMatrix(subschema)
            ELSE Set(subschema, "allOf",
                     ListSet(subschema.v["allOf"], SetMin(cand),
                             MinMaxToMatrix(subschema.v["allOf"].v[SetMin(cand)])))

RECURSIVE _fixup_remove_empty_items(_)
_fixup_remove_empty_items(subschema) ==
    IF ~In("items", subschema) THEN subschema
    ELSE IF subschema.v["items"].k = "dict"
    THEN Set(subschema, "items", _fixup_remove_empty_items(subschema.v["items"]))
    ELSE LET items == subschema.v["items"].v
             cleaned == [i \in 1..Len(items) |->
                            _fixup_remove_empty_items(Pop(items[i], "description"))]
             nonempty == {i \in 1..Len(items) : cleaned[i] # EmptyDict}
         IN IF nonempty # {}
            THEN \* the loop stops at the first item that is not empty
                 Set(subschema, "items",
                     L([i \in 1..Len(items) |->
                           IF i <= SetMin(nonempty) THEN cleaned[i] ELSE items[i]]))
            ELSE Pop(SetDefault(SetDefault(SetDefault(subschema, "type", S("array")),
                                           "maxItems", I(Len(items))),
                                "minItems", I(Len(items))),
                     "items")

itemkeys == {"items", "minItems", "maxItems", "uniqueItems", "default"}

\* The body of _fixup_int_array_items_to_matrix once subschema is bound to the
\* dictionary that carries 'items'
ItemsToMatrix(t) ==
    IF ~In("items", t) \/ _is_matrix_schema(t) THEN t
    ELSE IF t.v["items"].k = "dict"
    THEN Set(Without(t, itemkeys), "items", Only(t, itemkeys))
    ELSE IF t.v["items"].k = "list"
    THEN Set(Without(t, itemkeys), "items", L(<<Only(t, itemkeys)>>))
    ELSE t

_fixup_int_array_items_to_matrix(pname, subschema) ==
    IF ~is_int_array_schema(pname, subschema) THEN subschema
    ELSE LET cand == AllOfWith(subschema, {"items"})
         IN IF cand = {} THEN ItemsToMatrix(subschema)
            ELSE Set(subschema, "allOf",
                     ListSet(subschema.v["allOf"], SetMin(cand),
                             ItemsToMatrix(subschema.v["allOf"].v[SetMin(cand)])))

_fixup_scalar_to_array(pname, subschema) ==
    IF ~_is_int_schema(subschema) THEN subschema
    ELSE Set(Without(subschema, scalar_keywords), "items",
             L(<<D([items |-> L(<<_extract_single_schemas(subschema)>>)])>>))

\* 'dependencies' is split into dependentRequired (list-valued entries) and
\* dependentSchemas (the others)
fixup_schema_to_201909(sch) ==
    IF ~In("dependencies", sch) THEN sch
    ELSE LET val == sch.v["dependencies"]
             s0 == Pop(sch, "dependencies")
             lists == {y \in DOMAIN val.v : val.v[y].k = "list"}
             others == DOMAIN val.v \ lists
             old(key) == IF In(key, s0) THEN s0.v[key].v ELSE <<>>
             merged(key, ks) == D([y \in DOMAIN old(key) \cup ks |->
                                      IF y \in ks THEN val.v[y] ELSE old(key)[y]])
             s1 == IF lists # {} THEN Set(s0, "dependentRequired",
                                          merged("dependentRequired", lists))
                   ELSE s0
         IN IF val.k # "dict" THEN s0
            ELSE IF others # {} THEN Set(s1, "dependentSchemas",
                                         merged("dependentSchemas", others))
            ELSE s1

fixup_vals(pname, sch) ==
    LET s0 == Pop(sch, "description")
        s1 == _fixup_reg_schema(pname, s0)
        s2 == _fixup_remove_empty_items(s1)
        s3 == _fixup_int_matrix(pname, s2)
        s4 == _fixup_int_array_min_max_to_matrix(pname, s3)
        s5 == _fixup_int_array_items_to_matrix(pname, s4)
        s6 == _fixup_string_to_array(pname, s5)
        s7 == _fixup_scalar_to_array(pname, s6)
        s8 == _fixup_items_size(s7)
    IN fixup_schema_to_201909(s8)

RECURSIVE walk_properties(_, _)
\* for l in schema[cond]: walk_properties(propname, l)
WalkCond(pname, sch, cond) ==
    IF In(cond, sch)
    THEN Set(sch, cond, L([i \in 1..Len(sch.v[cond].v) |->
                              walk_properties(pname, sch.v[cond].v[i])]))
    ELSE sch

walk_properties(pname, sch) ==
    IF sch.k # "dict" THEN sch
    ELSE LET s1 == WalkCond(pname, sch, "allOf")
             s2 == WalkCond(pname, s1, "oneOf")
             s3 == WalkCond(pname, s2, "anyOf")
             s4 == IF In("then", s3)
                   THEN Set(s3, "then", walk_properties(pname, s3.v["then"]))
                   ELSE s3
         IN fixup_vals(pname, s4)

-----------------------------------------------------------------------------
(* The normalizer applied to one property node                             *)

\* The parts of the state a specification does not use
FixupIdle ==
    /\ propname = "" /\ orig = None /\ schema = None /\ first = None /\ applied = 0
    /\ older = None
DimIdle == dim1 = <<>> /\ dim2 = <<>> /\ dim = <<>> /\ dimrev = <<>>
DispatchIdle ==
    /\ schemas = <<>> /\ node = None /\ errors = {} /\ unmatched = FALSE
    /\ filter = "" /\ checked = ""
CmpIdle == baseline = <<>> /\ newer = <<>> /\ printed = {} /\ compared = {}
LoadIdle ==
    /\ files = <<>> /\ docs = <<>> /\ done = {} /\ log = {}
    /\ loader = "" /\ built = FALSE
TypeIdle ==
    /\ tyCorpus = <<>> /\ tyProps = None /\ tyDone = 0 /\ tyPermuted = None
    /\ tyTypes = None /\ tyFixed = None
RefIdle == scopes = <<>> /\ annotated = None

MaxApply == 2        \* walk_properties runs at most this many times
MaxItemsBound == 2   \* the largest minItems/maxItems an input node carries
MaxListLen == 2      \* the longest 'items' list of an input node

PropNames == {"reg", "foo", "foo-hz"}

\* d1 | d2 for dictionaries with disjoint keys
Merge(d1, d2) == D([y \in DOMAIN d1.v \cup DOMAIN d2.v |->
                       IF y \in DOMAIN d1.v THEN d1.v[y] ELSE d2.v[y]])

Leaves == {EmptyDict,
           D([const |-> I(5)]),
           D([const |-> S("a")]),
           D([minimum |-> I(1)]),
           D([pattern |-> S("x")])}

Bounds == {EmptyDict}
          \cup {D([minItems |-> I(n)]) : n \in 0..MaxItemsBound - 1}
          \cup {D([maxItems |-> I(n)]) : n \in 1..MaxItemsBound}
          \cup {D([minItems |-> I(m), maxItems |-> I(n)]) :
                   <<m, n>> \in {mn \in (0..MaxItemsBound) \X (1..MaxItemsBound) :
                                    mn[1] <= mn[2]}}

ItemNodes == {Merge(l, b) : l \in Leaves, b \in {EmptyDict, D([maxItems |-> I(2)])}}

ItemLists == {L(<<x>>) : x \in ItemNodes}
             \cup UNION {{L(q) : q \in [1..n -> Leaves]} : n \in 2..MaxListLen}

PropNodes == {Merge(l, b) : l \in Leaves, b \in Bounds}
             \cup {Set(Merge(l, b), "items", it) :
                      l \in Leaves, b \in Bounds, it \in ItemNodes \cup ItemLists}

FixupInit ==
    /\ propname \in PropNames
    /\ orig \in PropNodes
    /\ schema = orig
    /\ first = None
    /\ older = None
    /\ applied = 0
    /\ DimIdle /\ DispatchIdle /\ CmpIdle /\ LoadIdle /\ TypeIdle /\ RefIdle

\* fixup_sub_schema hands each property node to walk_properties
WalkProperties ==
    /\ applied < MaxApply
    /\ schema' = walk_properties(propname, schema)
    /\ first' = IF applied = 0 THEN schema' ELSE first
    /\ applied' = applied + 1
    /\ UNCHANGED <<propname, orig, older, dimVars, dispatchVars, cmpVars, loadVars, typeVars, refVars>>

FixupNext == WalkProperties

SpecFixup == FixupInit /\ [][FixupNext]_vars

-----------------------------------------------------------------------------
(* Claims about the normalizer                                             *)

\* C1: leaf promotion is idempotent: for every property name and every
\* property node, a second walk_properties leaves the result of the first
\* unchanged.
C1_Idempotent == applied = 2 => schema = first

ScalarLeaf == D([const |-> I(5)])

\* The inner row of the two-level wrapper
C5_Row(extra) == Merge(D([items |-> L(<<ScalarLeaf>>)]), extra)
C5_Sized == D([minItems |-> I(1), maxItems |-> I(1), type |-> S("array")])

\* C5 (as the spec states it): {const: 5} under a property not named 'reg'
\* normalizes to {items: [{items: [{const: 5}]}], minItems: 1, maxItems: 1,
\* type: 'array'} with no other key at any level.
C5_NoInnerKeys ==
    (applied >= 1 /\ propname # "reg" /\ orig = ScalarLeaf)
        => first = Merge(D([items |-> L(<<C5_Row(EmptyDict)>>)]), C5_Sized)

\* C5 (amended): {const: 5} under a property not named 'reg' normalizes to the
\* two-level wrapper with single-element bounds and type 'array' on the outer
\* node and on the inner row alike:
\* {items: [{items: [{const: 5}], minItems: 1, maxItems: 1, type: 'array'}],
\*  minItems: 1, maxItems: 1, type: 'array'}.
C5_ScalarLeafWrapped ==
    (applied >= 1 /\ propname # "reg" /\ orig = ScalarLeaf)
        => first = Merge(D([items |-> L(<<C5_Row(C5_Sized)>>)]), C5_Sized)

C5_Witness ==
    /\ applied = 1 /\ propname = "foo" /\ orig = ScalarLeaf
    /\ schema.v["items"].v[1].v["items"].v[1] = ScalarLeaf

\* The nodes walk_properties hands to fixup_vals: the property node, the
\* members of its allOf, oneOf and anyOf and its 'then', and theirs
RECURSIVE C16_Walked(_)
C16_Walked(sch) ==
    IF sch.k # "dict" THEN {}
    ELSE {sch}
         \cup UNION {IF In(cond, sch) /\ sch.v[cond].k = "list"
                     THEN UNION {C16_Walked(sch.v[cond].v[i]) : i \in 1..Len(sch.v[cond].v)}
                     ELSE {} : cond \in {"allOf", "oneOf", "anyOf"}}
         \cup (IF In("then", sch) THEN C16_Walked(sch.v["then"]) ELSE {})

\* The nodes _fixup_items_size visits from a node: the node and, through
\* 'items', the nodes below it
RECURSIVE C16_Sized(_)
C16_Sized(sch) ==
    IF sch.k = "list" THEN UNION {C16_Sized(sch.v[i]) : i \in 1..Len(sch.v)}
    ELSE IF sch.k # "dict" THEN {}
    ELSE {sch} \cup (IF In("items", sch) THEN C16_Sized(sch.v["items"]) ELSE {})

C16_Visited == UNION {C16_Sized(w) : w \in C16_Walked(first)}

-----------------------------------------------------------------------------
(* The selector builder: add_select_schema (dtschema/fixups.py) and        *)
(* extract_node_compatibles (dtschema/lib.py).  It runs on the variables   *)
(* schema, orig and applied; propname and first stay idle.                 *)

\* str(): the text of a value
str(x) == IF x.k = "str" THEN x.v
          ELSE IF x.k = "int" THEN (CASE x.v = 5 -> "5" [] x.v = 6 -> "6" [] OTHER -> "0")
          ELSE IF x.k = "bool" THEN (IF x.v THEN "True" ELSE "False")
          ELSE "None"

\* The order of Python's str comparison on the strings of the model
StrRank == [s \in {"5", "6", "^v,c.*", "simple-mfd", "syscon", "v,a", "v,b", "v,c"} |->
              CASE s = "5" -> 1 [] s = "6" -> 2 [] s = "^v,c.*" -> 3
                [] s = "simple-mfd" -> 4 [] s = "syscon" -> 5
                [] s = "v,a" -> 6 [] s = "v,b" -> 7 [] s = "v,c" -> 8]

RECURSIVE sorted(_)
sorted(set) ==
    IF set = {} THEN <<>>
    ELSE LET least == CHOOSE s \in set : \A u \in set : StrRank[s] <= StrRank[u]
         IN <<S(least)>> \o sorted(set \ {least})

\* The values item_generator yields (it does not look below a matching key)
RECURSIVE item_generator(_, _)
item_generator(json_input, lookup_key) ==
    IF json_input.k = "dict"
    THEN UNION {IF y = lookup_key THEN {json_input.v[y]}
                ELSE item_generator(json_input.v[y], lookup_key) :
                y \in DOMAIN json_input.v}
    ELSE IF json_input.k = "list"
    THEN UNION {item_generator(json_input.v[i], lookup_key) :
                i \in 1..Len(json_input.v)}
    ELSE {}

extract_node_compatibles(sch) ==
    IF sch.k # "dict" THEN {}
    ELSE UNION {{l.v[i].v : i \in 1..Len(l.v)} :
                l \in {e \in item_generator(sch, "enum") : e.v[1].k = "str"}}
         \cup {str(l) : l \in item_generator(sch, "const")}
         \cup {l.v : l \in item_generator(sch, "pattern")}

RECURSIVE convert_to_dict(_)
convert_to_dict(sch) ==
    IF sch.k = "dict" THEN D([y \in DOMAIN sch.v |-> convert_to_dict(sch.v[y])])
    ELSE IF sch.k = "list" THEN L([i \in 1..Len(sch.v) |-> convert_to_dict(sch.v[i])])
    ELSE sch

\* The selector built from a list of compatible strings
CompatibleSelect(list) ==
    D([required |-> L(<<S("compatible")>>),
       properties |-> D([compatible |-> D([contains |-> D([enum |-> L(list)])])])])

NodenameSelect(sch) ==
    D([required |-> L(<<S("$nodename")>>),
       properties |-> D("$nodename" :> convert_to_dict(sch))])

\* add_select_schema putting the match-nothing selector in the place of any
\* the author wrote
AddSelectOverwrite(sch) == Set(sch, "select", B(FALSE))

add_select_schema(sch) ==
    IF In("select", sch) THEN sch
    ELSE IF ~In("properties", sch) THEN Set(sch, "select", B(FALSE))
    ELSE LET properties == sch.v["properties"]
             compatible_list ==
                 IF In("compatible", properties)
                 THEN extract_node_compatibles(properties.v["compatible"])
                 ELSE {}
             remaining == compatible_list \ {"syscon", "simple-mfd"}
         IN IF remaining # {}
            THEN Set(sch, "select", CompatibleSelect(sorted(remaining)))
            ELSE IF In("$nodename", properties) /\ properties.v["$nodename"] # B(TRUE)
            THEN Set(sch, "select", NodenameSelect(properties.v["$nodename"]))
            ELSE Set(sch, "select", B(FALSE))

MaxEnum == 2

CompatStrs == {"v,a", "v,b", "syscon", "simple-mfd"}

\* Lists of distinct strings, in any order
EnumLists == UNION {{[i \in 1..n |-> S(q[i])] :
                        q \in {r \in [1..n -> CompatStrs] :
                                  \A i, j \in 1..n : i # j => r[i] # r[j]}} :
                     n \in 1..MaxEnum}

CompatAtoms ==
    {D([const |-> S(s)]) : s \in CompatStrs} \cup {D([const |-> I(5)])}
    \cup {D([enum |-> L(q)]) : q \in EnumLists}
    \cup {D([pattern |-> S("^v,c.*")])}

\* Constraints of a 'compatible' property
CompatNodes ==
    CompatAtoms
    \cup {D([enum |-> L(q), const |-> S(s)]) : q \in EnumLists, s \in {"syscon", "v,a"}}
    \cup {D([enum |-> L(q), pattern |-> S("^v,c.*")]) : q \in EnumLists}
    \cup {D([contains |-> a]) : a \in CompatAtoms}
    \cup {D([items |-> L(<<a, b>>)]) : a, b \in CompatAtoms}
    \cup {D([oneOf |-> L(<<a, D([items |-> L(<<b>>)])>>)]) :
            a \in {D([const |-> S("v,a")])}, b \in CompatAtoms}

NodenameNodes == {B(TRUE), D([pattern |-> S("^foo$")])}

PropertiesNodes ==
    {D("reg" :> EmptyDict)}
    \cup {D("$nodename" :> n) : n \in NodenameNodes}
    \cup {D("compatible" :> c) : c \in CompatNodes}
    \cup {D("compatible" :> c @@ "$nodename" :> n) : c \in CompatNodes, n \in NodenameNodes}

SelectSchemas ==
    LET id == D("$id" :> S("http://devicetree.org/schemas/a.yaml#"))
    IN {id} \cup {Set(id, "select", B(TRUE))}
       \cup {Set(id, "properties", pr) : pr \in PropertiesNodes}
       \cup {Set(Set(id, "properties", pr), "select", B(TRUE)) : pr \in PropertiesNodes}

SelectInit ==
    /\ propname = ""
    /\ orig \in SelectSchemas
    /\ schema = orig
    /\ first = None
    /\ older = None
    /\ applied = 0
    /\ DimIdle /\ DispatchIdle /\ CmpIdle /\ LoadIdle /\ TypeIdle /\ RefIdle

AddSelectSchema ==
    /\ applied = 0
    /\ schema' = add_select_schema(schema)
    /\ applied' = 1
    /\ UNCHANGED <<propname, orig, first, older, dimVars, dispatchVars, cmpVars, loadVars, typeVars, refVars>>

SelectNext == AddSelectSchema

SpecSelect == SelectInit /\ [][SelectNext]_vars

\* The strings under 'enum' and 'const' at any depth of a constraint
C2_EnumConstStrings(sch) ==
    UNION {{l.v[i].v : i \in 1..Len(l.v)} : l \in item_generator(sch, "enum")}
    \cup {str(l) : l \in item_generator(sch, "const")}

C2_FromCompatible ==
    /\ applied = 1
    /\ ~In("select", orig)
    /\ schema.v["select"].k = "dict"
    /\ schema.v["select"].v["required"] = L(<<S("compatible")>>)

\* C2: a selector derived from 'compatible' is {required: ['compatible'],
\* properties: {compatible: {contains: {enum: L}}}} with L the sorted list
\* without duplicates of the strings under 'enum' and 'const' at any depth,
\* less 'syscon' and 'simple-mfd'; no 'pattern' value is in L.
C2_EnumConstOnly ==
    C2_FromCompatible =>
        schema.v["select"] =
            CompatibleSelect(sorted(
                C2_EnumConstStrings(orig.v["properties"].v["compatible"])
                    \ {"syscon", "simple-mfd"}))

-----------------------------------------------------------------------------
(* Type inference: the dimensions of a property and their merge            *)
(* (_extract_prop_type and _merge_dim of dtschema/validator.py).           *)

\* (min(r1 + r2), max(r1 + r2)) of two ranges: the tuples are concatenated
RangeUnion(r1, r2) ==
    LET all == {r1[1], r1[2], r2[1], r2[2]}
    IN <<SetMin(all), SetMax(all)>>

\* _merge_dim with dim1 taken wherever both sides are set
MergeDimKeepFirst(d1, d2) ==
    [i \in 1..2 |-> IF d1[i] = <<0, 0>> THEN d2[i] ELSE d1[i]]

_merge_dim(d1, d2) ==
    [i \in 1..2 |->
        IF d1[i] = <<0, 0>> THEN d2[i]
        ELSE IF d2[i] = <<0, 0>> THEN d1[i]
        ELSE RangeUnion(d1[i], d2[i])]

\* The dimensions _extract_prop_type records for a matrix declaration
PropDim(subschema) ==
    <<_get_array_range(subschema),
      _get_array_range(IF In("items", subschema) THEN subschema.v["items"]
                       ELSE EmptyDict)>>

MaxOuter == 4
MaxInner == 1

\* minItems/maxItems of a declaration: either, both or none
SizeKeys(max) ==
    {EmptyDict}
    \cup {D([minItems |-> I(m)]) : m \in 0..max}
    \cup {D([maxItems |-> I(n)]) : n \in 1..max}
    \cup {D([minItems |-> I(mn[1]), maxItems |-> I(mn[2])]) :
            mn \in {x \in (0..max) \X (1..max) : x[1] <= x[2]}}

\* Declarations of a matrix property
MatrixSchemas ==
    SizeKeys(MaxOuter)
    \cup {Set(o, "items", i) : o \in SizeKeys(MaxOuter), i \in SizeKeys(MaxInner)}
    \cup {Set(o, "items", L(<<i>>)) : o \in {EmptyDict}, i \in SizeKeys(MaxInner)}
    \cup {D([items |-> L(<<EmptyDict, EmptyDict>>)])}

Dims == {PropDim(s) : s \in MatrixSchemas}

DimInit ==
    /\ dim1 \in Dims
    /\ dim2 \in Dims
    /\ dim = <<>>
    /\ dimrev = <<>>
    /\ FixupIdle /\ DispatchIdle /\ CmpIdle /\ LoadIdle /\ TypeIdle /\ RefIdle

MergeDim ==
    /\ dim = <<>>
    /\ dim' = _merge_dim(dim1, dim2)
    /\ UNCHANGED <<dim1, dim2, dimrev, fixupVars, dispatchVars, cmpVars, loadVars, typeVars, refVars>>

MergeDimSwapped ==
    /\ dimrev = <<>>
    /\ dimrev' = _merge_dim(dim2, dim1)
    /\ UNCHANGED <<dim1, dim2, dim, fixupVars, dispatchVars, cmpVars, loadVars, typeVars, refVars>>

DimNext == MergeDim \/ MergeDimSwapped

SpecDim == DimInit /\ [][DimNext]_vars

\* C3: _merge_dim is commutative: _merge_dim(d1, d2) = _merge_dim(d2, d1)
\* for all dimension pairs d1, d2.
C3_Commutative == (dim # <<>> /\ dimrev # <<>>) => dim = dimrev

C3_Witness ==
    /\ dim1 = <<<<1, 1>>, <<0, 0>>>>
    /\ dim2 = <<<<2, 4>>, <<0, 0>>>>
    /\ dim = <<<<1, 4>>, <<0, 0>>>>
    /\ dimrev = dim

\* The range the merge rule gives one axis
C4_Axis(r1, r2) ==
    IF r1 = <<0, 0>> THEN r2
    ELSE IF r2 = <<0, 0>> THEN r1
    ELSE <<Min2(r1[1], r2[1]), Max2(r1[2], r2[2])>>

\* C4: for every pair of dimensions _get_array_range can produce, each axis
\* of the merge is the other side's range when one side is (0, 0), and
\* otherwise (smaller of the two minimums, larger of the two maximums).
C4_BoundingUnion ==
    dim # <<>> => \A i \in 1..2 : dim[i] = C4_Axis(dim1[i], dim2[i])

-----------------------------------------------------------------------------
(* Validation of an instance against a schema, as the jsonschema validator *)
(* called by the dispatch does it, for the keywords the model's schemas    *)
(* use.  An error is <<path, keyword, detail>>.                            *)

Elems(list) == {list.v[i] : i \in 1..Len(list.v)}

\* re.search(pattern, string) on the patterns and strings of the model
re_search(pattern, string) ==
    CASE pattern = "^foo" -> string \in {"foo", "foo,bar"}
      [] pattern = "^foo$" -> string = "foo"
      [] pattern = "^v,c.*" -> string \in {"v,c", "v,c2"}
      [] OTHER -> FALSE

RECURSIVE iter_errors(_, _, _)
iter_errors(sch, instance, path) ==
    IF sch.k = "bool" THEN (IF sch.v THEN {} ELSE {<<path, "false", "">>})
    ELSE LET has(key) == key \in DOMAIN sch.v
             valid(s, x) == iter_errors(s, x, path) = {}
             one(key, ok) == IF ok THEN {} ELSE {<<path, key, "">>}
         IN (IF has("required") /\ instance.k = "dict"
             THEN {<<path, "required", n.v>> :
                     n \in {r \in Elems(sch.v["required"]) : r.v \notin DOMAIN instance.v}}
             ELSE {})
            \cup (IF has("properties") /\ instance.k = "dict"
                  THEN UNION {iter_errors(sch.v["properties"].v[pr], instance.v[pr],
                                          Append(path, pr)) :
                              pr \in DOMAIN sch.v["properties"].v \cap DOMAIN instance.v}
                  ELSE {})
            \cup (IF has("items") /\ sch.v["items"].k # "list" /\ instance.k = "list"
                  THEN UNION {iter_errors(sch.v["items"], instance.v[i],
                                          Append(path, ToString(i - 1))) :
                              i \in 1..Len(instance.v)}
                  ELSE {})
            \cup (IF has("items") /\ sch.v["items"].k = "list" /\ instance.k = "list"
                  THEN UNION {iter_errors(sch.v["items"].v[i], instance.v[i],
                                          Append(path, ToString(i - 1))) :
                              i \in 1..Min2(Len(sch.v["items"].v), Len(instance.v))}
                  ELSE {})
            \cup (IF has("type")
                  THEN one("type", instance.k = (CASE sch.v["type"].v = "array" -> "list"
                                                   [] sch.v["type"].v = "object" -> "dict"
                                                   [] sch.v["type"].v = "boolean" -> "bool"
                                                   [] sch.v["type"].v = "string" -> "str"
                                                   [] OTHER -> "int"))
                  ELSE {})
            \cup (IF has("minItems") /\ instance.k = "list"
                  THEN one("minItems", Len(instance.v) >= sch.v["minItems"].v)
                  ELSE {})
            \cup (IF has("maxItems") /\ instance.k = "list"
                  THEN one("maxItems", Len(instance.v) <= sch.v["maxItems"].v)
                  ELSE {})
            \cup (IF has("contains") /\ instance.k = "list"
                  THEN one("contains", \E x \in Elems(instance) : valid(sch.v["contains"], x))
                  ELSE {})
            \cup (IF has("enum") THEN one("enum", instance \in Elems(sch.v["enum"])) ELSE {})
            \cup (IF has("const") THEN one("const", instance = sch.v["const"]) ELSE {})
            \cup (IF has("pattern") /\ instance.k = "str"
                  THEN one("pattern", re_search(sch.v["pattern"].v, instance.v))
                  ELSE {})
            \cup (IF has("allOf")
                  THEN UNION {iter_errors(s, instance, path) : s \in Elems(sch.v["allOf"])}
                  ELSE {})
            \cup (IF has("anyOf")
                  THEN one("anyOf", \E s \in Elems(sch.v["anyOf"]) : valid(s, instance))
                  ELSE {})
            \cup (IF has("oneOf")
                  THEN one("oneOf",
                           Cardinality({i \in 1..Len(sch.v["oneOf"].v) :
                                          valid(sch.v["oneOf"].v[i], instance)}) = 1)
                  ELSE {})
            \cup (IF has("if") /\ has("then") /\ valid(sch.v["if"], instance)
                  THEN iter_errors(sch.v["then"], instance, path)
                  ELSE {})

is_valid(sch, instance) == iter_errors(sch, instance, <<>>) = {}

-----------------------------------------------------------------------------
(* fixup_interrupts (dtschema/fixups.py); it runs on schema, orig and       *)
(* applied.                                                                *)

\* A list that is left as it is
list_keep(list, x) == list

\* list.remove(x): the list without the first x
list_remove(list, x) ==
    LET at == CHOOSE i \in 1..Len(list.v) :
                 list.v[i] = x /\ \A j \in 1..(i - 1) : list.v[j] # x
    IN L(SubSeq(list.v, 1, at - 1) \o SubSeq(list.v, at + 1, Len(list.v)))

reqlist == L(<<D([required |-> L(<<S("interrupts")>>)]),
               D([required |-> L(<<S("interrupts-extended")>>)])>>)

fixup_interrupts(sch) ==
    IF ~In("properties", sch) THEN sch
    ELSE
    LET props == sch.v["properties"]
        props1 == IF DOMAIN props.v \cap {"interrupts", "interrupt-controller"} # {}
                     /\ ~In("interrupt-parent", props)
                  THEN Set(props, "interrupt-parent", B(TRUE))
                  ELSE props
        s1 == Set(sch, "properties", props1)
    IN IF ~In("interrupts", props1) \/ In("interrupts-extended", props1) THEN s1
       ELSE
       LET s2 == Set(s1, "properties",
                     Set(props1, "interrupts-extended", props1.v["interrupts"]))
       IN IF ~(In("required", s2) /\ S("interrupts") \in Elems(s2.v["required"])) THEN s2
          ELSE
          LET s3 == IF In("oneOf", s2)
                    THEN LET s2a == SetDefault(s2, "allOf", L(<<>>))
                         IN Set(s2a, "allOf",
                                L(Append(s2a.v["allOf"].v, D([oneOf |-> reqlist]))))
                    ELSE Set(s2, "oneOf", reqlist)
          IN Set(s3, "required", list_remove(s3.v["required"], S("interrupts")))

\* Property sets of a node schema
InterruptProps ==
    {D([pr \in names |-> IF pr \in {"interrupts", "interrupts-extended"}
                         THEN D([maxItems |-> I(1)]) ELSE B(TRUE)]) :
        names \in SUBSET {"interrupts", "interrupts-extended", "interrupt-controller",
                          "interrupt-parent", "reg"}}

RequiredLists ==
    {L(<<>>), L(<<S("interrupts")>>), L(<<S("reg")>>),
     L(<<S("reg"), S("interrupts")>>), L(<<S("interrupts"), S("reg")>>)}

OwnOneOf == L(<<D([required |-> L(<<S("reg")>>)]), D([required |-> L(<<S("clocks")>>)])>>)
OwnAllOf == L(<<D([required |-> L(<<S("reg")>>)])>>)

\* s with key set to each of vals, or left without key
WithOptional(set, key, vals) == set \cup {Set(s, key, val) : s \in set, val \in vals}

NodeSchemas ==
    WithOptional(WithOptional(WithOptional(WithOptional({EmptyDict},
        "properties", InterruptProps), "required", RequiredLists),
        "oneOf", {OwnOneOf}), "allOf", {OwnAllOf})

InterruptsInit ==
    /\ propname = ""
    /\ orig \in NodeSchemas
    /\ schema = orig
    /\ first = None
    /\ older = None
    /\ applied = 0
    /\ DimIdle /\ DispatchIdle /\ CmpIdle /\ LoadIdle /\ TypeIdle /\ RefIdle

FixupInterrupts ==
    /\ applied = 0
    /\ schema' = fixup_interrupts(schema)
    /\ applied' = 1
    /\ UNCHANGED <<propname, orig, first, older, dimVars, dispatchVars, cmpVars, loadVars, typeVars, refVars>>

InterruptsNext == FixupInterrupts

SpecInterrupts == InterruptsInit /\ [][InterruptsNext]_vars

\* The schema declares 'interrupts' and lists it in 'required'
C6_RequiresInterrupts ==
    /\ applied = 1
    /\ In("properties", orig) /\ In("interrupts", orig.v["properties"])
    /\ In("required", orig) /\ S("interrupts") \in Elems(orig.v["required"])

\* 'required' has lost 'interrupts', the alternative stands as 'oneOf' (or as
\* the last member of 'allOf' next to the schema's own 'oneOf') and a node
\* with 'interrupts-extended' alone satisfies it
C6_Replaced ==
    LET alternative == D([oneOf |-> reqlist])
        extended == D("interrupts-extended" :> L(<<L(<<I(5)>>)>>))
    IN /\ S("interrupts") \notin Elems(schema.v["required"])
       /\ IF In("oneOf", orig)
          THEN /\ schema.v["oneOf"] = orig.v["oneOf"]
               /\ In("allOf", schema)
               /\ schema.v["allOf"].v[Len(schema.v["allOf"].v)] = alternative
               /\ SubSeq(schema.v["allOf"].v, 1, Len(schema.v["allOf"].v) - 1)
                    = (IF In("allOf", orig) THEN orig.v["allOf"].v ELSE <<>>)
          ELSE schema.v["oneOf"] = reqlist
       /\ is_valid(alternative, extended)
       /\ ~is_valid(alternative, EmptyDict)

C20_Nodes ==
    {D([pr \in names |-> L(<<L(<<I(5)>>)>>)]) :
        names \in SUBSET {"interrupts", "interrupts-extended", "reg"}}

\* The requirement fixup_interrupts has put in the place of the required
\* 'interrupts': the schema's 'oneOf', or the last member of its 'allOf'
C20_Requirement ==
    IF In("oneOf", orig)
    THEN schema.v["allOf"].v[Len(schema.v["allOf"].v)]
    ELSE D([oneOf |-> schema.v["oneOf"]])

\* C20: the requirement that replaces a required 'interrupts' is an OR: a
\* node that supplies 'interrupts', 'interrupts-extended' or both satisfies
\* it, and a node that supplies neither violates it.
C20_EitherOrBoth ==
    (C6_RequiresInterrupts /\ ~In("interrupts-extended", orig.v["properties"])) =>
        \A nd \in C20_Nodes :
            is_valid(C20_Requirement, nd)
                <=> DOMAIN nd.v \cap {"interrupts", "interrupts-extended"} # {}

-----------------------------------------------------------------------------
(* The whole fixup of a schema document: fixup_schema, fixup_sub_schema    *)
(* and fixup_node_props (dtschema/fixups.py).                              *)

\* No property name known as a variable matrix
NoKnownMatrixProps == {}

known_variable_matrix_props == {"fsl,pins", "qcom,board-id"}

\* re.match(r'^pinctrl-[0-9]', key) on the property names of the model
pinctrl_re_match(key) == key \in {"pinctrl-0", "pinctrl-1"}

\* dict.setdefault(key, True) for each of keys
SetDefaults(d, keys) ==
    D([y \in DOMAIN d.v \cup keys |-> IF y \in DOMAIN d.v THEN d.v[y] ELSE B(TRUE)])

\* The implicit properties set in every node schema, restricted or not
NodePropsInjectedAlways(sch) ==
    Set(sch, "properties",
        SetDefaults(IF In("properties", sch) THEN sch.v["properties"] ELSE EmptyDict,
                    {"phandle", "status", "secure-status", "$nodename",
                     "bootph-pre-sram", "bootph-verify", "bootph-pre-ram",
                     "bootph-some-ram", "bootph-all"}))

fixup_node_props(sch) ==
    IF \/ DOMAIN sch.v \cap {"unevaluatedProperties", "additionalProperties"} = {}
       \/ (In("additionalProperties", sch) /\ sch.v["additionalProperties"] = B(TRUE))
       \/ (In("unevaluatedProperties", sch) /\ sch.v["unevaluatedProperties"] = B(TRUE))
    THEN sch
    ELSE
    LET s1 == SetDefault(sch, "properties", EmptyDict)
        p1 == SetDefaults(s1.v["properties"],
                          {"phandle", "status", "secure-status", "$nodename",
                           "bootph-pre-sram", "bootph-verify", "bootph-pre-ram",
                           "bootph-some-ram", "bootph-all"})
        p2 == IF In("ranges", p1) THEN SetDefault(p1, "dma-ranges", B(TRUE)) ELSE p1
        keys == DOMAIN p2.v \cup (IF In("patternProperties", s1)
                                  THEN DOMAIN s1.v["patternProperties"].v ELSE {})
        pinctrl == \E key \in keys : pinctrl_re_match(key)
        p3 == IF pinctrl THEN p2 ELSE SetDefault(p2, "pinctrl-names", B(TRUE))
        p4 == IF "clocks" \in keys /\ "assigned-clocks" \notin keys
              THEN Set(Set(Set(p3, "assigned-clocks", B(TRUE)),
                           "assigned-clock-rates", B(TRUE)),
                       "assigned-clock-parents", B(TRUE))
              ELSE p3
        s2 == Set(s1, "properties", p4)
    IN IF pinctrl THEN s2
       ELSE Set(s2, "patternProperties",
                Set(IF In("patternProperties", s2) THEN s2.v["patternProperties"]
                    ELSE EmptyDict,
                    "pinctrl-[0-9]+", B(TRUE)))

RECURSIVE fixup_sub_schema(_)
\* for prop in v: walk_properties(prop, v[prop]); fixup_sub_schema(v[prop])
FixupProps(v) ==
    IF v.k = "dict"
    THEN D([prop \in DOMAIN v.v |->
              IF prop \in known_variable_matrix_props /\ v.v[prop].k = "dict"
              THEN Only(v.v[prop], {"$ref"})
              ELSE fixup_sub_schema(walk_properties(prop, v.v[prop]))])
    ELSE v

\* if 'additionalProperties' in schema and schema['additionalProperties'] == True
PopAdditionalTrue(sch) ==
    IF In("additionalProperties", sch) /\ sch.v["additionalProperties"] = B(TRUE)
    THEN Pop(sch, "additionalProperties")
    ELSE sch

\* for k, v in schema.items()
FixupItems(sch) ==
    D([y \in DOMAIN sch.v |->
         IF y \in {"select", "if", "then", "else", "not", "additionalProperties"}
         THEN fixup_sub_schema(sch.v[y])
         ELSE IF y \in {"allOf", "anyOf", "oneOf"}
         THEN L([i \in 1..Len(sch.v[y].v) |-> fixup_sub_schema(sch.v[y].v[i])])
         ELSE IF y \in {"dependentRequired", "dependentSchemas", "dependencies",
                        "properties", "patternProperties", "$defs"}
         THEN FixupProps(sch.v[y])
         ELSE sch.v[y]])

fixup_sub_schema(sch) ==
    IF sch.k # "dict" THEN sch
    ELSE fixup_schema_to_201909(
             FixupItems(
                 PopAdditionalTrue(
                     fixup_node_props(fixup_interrupts(Pop(sch, "description"))))))

fixup_schema(sch) ==
    fixup_sub_schema(add_select_schema(Without(sch, {"examples", "maintainers", "historical"})))

-----------------------------------------------------------------------------
(* The same fixup as dtschema/lib.py has it: the older generation that     *)
(* DTValidator.check_schema of lib.py runs.  Only what differs from        *)
(* dtschema/fixups.py is written again; the rest is shared.                *)

lib_scalar_keywords == {"const", "enum", "pattern", "minimum", "maximum"}

lib__extract_single_schemas(subschema) == Only(subschema, lib_scalar_keywords)

lib__fixup_string_to_array(pname, subschema) ==
    IF ~_is_string_schema(subschema) THEN subschema
    ELSE Set(Without(subschema, lib_scalar_keywords), "items",
             L(<<lib__extract_single_schemas(subschema)>>))

lib__fixup_reg_schema(pname, subschema) ==
    IF pname # "reg" THEN subschema
    ELSE IF In("items", subschema)
    THEN LET item_schema == IF subschema.v["items"].k = "list"
                            THEN subschema.v["items"].v[1]
                            ELSE subschema.v["items"]
         IN IF ~_is_int_schema(item_schema) THEN subschema
            ELSE Set(subschema, "items",
                     L(<<D([items |-> L(<<lib__extract_single_schemas(item_schema)>>)])>>))
    ELSE IF _is_int_schema(subschema)
    THEN Set(Without(subschema, lib_scalar_keywords), "items",
             L(<<D([items |-> L(<<lib__extract_single_schemas(subschema)>>)])>>))
    ELSE subschema

lib__fixup_scalar_to_array(pname, subschema) ==
    IF ~_is_int_schema(subschema) THEN subschema
    ELSE Set(Without(subschema, lib_scalar_keywords), "items",
             L(<<D([items |-> L(<<lib__extract_single_schemas(subschema)>>)])>>))

lib_known_variable_matrix_props == {"fsl,pins"}

\* lib.py drops the dimensions of a matrix whose name is a known variable
\* matrix, and of one whose two axes are both variable
lib__fixup_int_matrix(pname, subschema) ==
    IF ~_is_matrix_schema(subschema) THEN subschema
    ELSE LET outer_dim == _get_array_range(subschema)
             inner_dim == _get_array_range(IF In("items", subschema)
                                           THEN subschema.v["items"] ELSE EmptyDict)
         IN IF \/ pname \in lib_known_variable_matrix_props
               \/ (outer_dim[1] # outer_dim[2] /\ inner_dim[1] # inner_dim[2])
            THEN Set(Without(subschema, matrix_keys), "type", S("array"))
            ELSE subschema

lib_fixup_vals(pname, sch) ==
    fixup_schema_to_201909(
      _fixup_items_size(
        lib__fixup_scalar_to_array(pname,
          lib__fixup_string_to_array(pname,
            _fixup_int_array_items_to_matrix(pname,
              _fixup_int_array_min_max_to_matrix(pname,
                lib__fixup_int_matrix(pname,
                  _fixup_remove_empty_items(
                    lib__fixup_reg_schema(pname, Pop(sch, "description"))))))))))

RECURSIVE lib_walk_properties(_, _)
lib_WalkCond(pname, sch, cond) ==
    IF In(cond, sch)
    THEN Set(sch, cond, L([i \in 1..Len(sch.v[cond].v) |->
                              lib_walk_properties(pname, sch.v[cond].v[i])]))
    ELSE sch

\* if 'then' in schema.keys(): walk_properties(propname, schema['then'])
lib_WalkThen(pname, sch) ==
    IF In("then", sch)
    THEN Set(sch, "then", lib_walk_properties(pname, sch.v["then"]))
    ELSE sch

lib_walk_properties(pname, sch) ==
    IF sch.k # "dict" THEN sch
    ELSE lib_fixup_vals(pname,
           lib_WalkThen(pname,
             lib_WalkCond(pname,
               lib_WalkCond(pname, lib_WalkCond(pname, sch, "allOf"), "oneOf"),
               "anyOf")))

lib_fixup_node_props(sch) ==
    IF \/ DOMAIN sch.v \cap {"properties", "patternProperties", "unevaluatedProperties"} = {}
       \/ (In("additionalProperties", sch) /\ sch.v["additionalProperties"] = B(TRUE))
       \/ (In("unevaluatedProperties", sch) /\ sch.v["unevaluatedProperties"] = B(TRUE))
    THEN sch
    ELSE
    LET s1 == SetDefault(sch, "properties", EmptyDict)
        p1 == SetDefaults(s1.v["properties"],
                          {"phandle", "status", "secure-status", "$nodename"})
        keys == DOMAIN p1.v \cup (IF In("patternProperties", s1)
                                  THEN DOMAIN s1.v["patternProperties"].v ELSE {})
        pinctrl == \E key \in keys : pinctrl_re_match(key)
        p3 == IF pinctrl THEN p1 ELSE SetDefault(p1, "pinctrl-names", B(TRUE))
        p4 == IF "clocks" \in keys /\ "assigned-clocks" \notin keys
              THEN Set(Set(Set(p3, "assigned-clocks", B(TRUE)),
                           "assigned-clock-rates", B(TRUE)),
                       "assigned-clock-parents", B(TRUE))
              ELSE p3
        s2 == Set(s1, "properties", p4)
    IN IF pinctrl THEN s2
       ELSE Set(s2, "patternProperties",
                Set(IF In("patternProperties", s2) THEN s2.v["patternProperties"]
                    ELSE EmptyDict,
                    "pinctrl-[0-9]+", B(TRUE)))

RECURSIVE lib_fixup_sub_schema(_, _)
\* for prop in v: walk_properties(prop, v[prop]); fixup_sub_schema(v[prop], True)
lib_FixupProps(v) ==
    IF v.k = "dict"
    THEN D([prop \in DOMAIN v.v |->
              lib_fixup_sub_schema(lib_walk_properties(prop, v.v[prop]), TRUE)])
    ELSE v

\* for k, v in schema.items()
lib_FixupItems(sch) ==
    D([y \in DOMAIN sch.v |->
         IF y \in {"select", "if", "then", "else", "additionalProperties", "not"}
         THEN lib_fixup_sub_schema(sch.v[y], FALSE)
         ELSE IF y \in {"allOf", "anyOf", "oneOf"}
         THEN L([i \in 1..Len(sch.v[y].v) |-> lib_fixup_sub_schema(sch.v[y].v[i], TRUE)])
         ELSE IF y \in {"dependentRequired", "dependentSchemas", "dependencies",
                        "properties", "patternProperties", "$defs"}
         THEN lib_FixupProps(sch.v[y])
         ELSE sch.v[y]])

\* if is_prop: fixup_node_props(schema)
lib_NodeProps(sch, is_prop) == IF is_prop THEN lib_fixup_node_props(sch) ELSE sch

lib_fixup_sub_schema(sch, is_prop) ==
    IF sch.k # "dict" THEN sch
    ELSE fixup_schema_to_201909(
             lib_FixupItems(
                 PopAdditionalTrue(
                     lib_NodeProps(fixup_interrupts(Pop(sch, "description")), is_prop))))

lib_fixup_schema(sch) ==
    lib_fixup_sub_schema(
        add_select_schema(Without(sch, {"examples", "maintainers", "historical"})), TRUE)

-----------------------------------------------------------------------------
(* The corpus: process_schema, process_schemas and make_compatible_schema  *)
(* (dtschema/validator.py, dtschema/lib.py).                               *)

process_schema(doc, filename) ==
    Set(Set(fixup_schema(doc), "type", S("object")), "$filename", S(filename))

\* prog.match(c): c holds one of the characters ^ [ { ( $
prog_match(c) == c \in {"^v,c.*", "^foo", "^foo$", "^[a-zA-Z0-9][a-zA-Z0-9,+\\-._/]+$"}

extract_compatibles(sch) ==
    IF sch.k # "dict" THEN {}
    ELSE UNION {extract_node_compatibles(c) : c \in item_generator(sch, "compatible")}

\* The entry make_compatible_schema builds; the patterns follow the enum and
\* '^foo' in the order of the set they are read from
GeneratedCompatibles(schs, id) ==
    LET compatible_list == UNION {extract_compatibles(schs[key]) : key \in DOMAIN schs}
        patterns == sorted({c \in compatible_list :
                              prog_match(c) /\ c # "^[a-zA-Z0-9][a-zA-Z0-9,+\\-._/]+$"})
        enum == sorted({c \in compatible_list : ~prog_match(c)})
        compat_sch == <<D([enum |-> L(enum)]), D([pattern |-> S("^foo")])>>
                      \o [i \in 1..Len(patterns) |-> D([pattern |-> patterns[i]])]
    IN D("$id" :> S(id)
         @@ "$filename" :> S("Generated schema of documented compatible strings")
         @@ "select" :> B(TRUE)
         @@ "properties" :> D([compatible |-> D([items |-> D([anyOf |-> L(compat_sch)])])]))

\* dtschema/validator.py
make_compatible_schema(schs) ==
    ("generated-compatibles" :>
        GeneratedCompatibles(schs, "http://devicetree.org/schemas/generated-compatibles"))
    @@ schs

\* dtschema/lib.py
lib_make_compatible_schema(schs) ==
    ("generated-compatibles" :> GeneratedCompatibles(schs, "generated-compatibles")) @@ schs

\* The schema files of the model, by file name
SchemaFiles ==
    LET id(name) == S("http://devicetree.org/schemas/" \o name \o "#")
    IN [name \in {"a.yaml", "a2.yaml", "n.yaml", "e.yaml", "p.yaml"} |->
          CASE name = "a.yaml" ->
                 D("$id" :> id(name)
                   @@ "properties" :> D([compatible |-> D([const |-> S("v,a")]),
                                         reg |-> D([maxItems |-> I(1)])])
                   @@ "required" :> L(<<S("compatible"), S("reg")>>))
            [] name = "a2.yaml" ->
                 D("$id" :> id(name)
                   @@ "properties" :> D([compatible |-> D([enum |-> L(<<S("v,b"), S("v,a")>>)]),
                                         clocks |-> D([maxItems |-> I(1)])])
                   @@ "required" :> L(<<S("clocks")>>))
            [] name = "n.yaml" ->
                 D("$id" :> id(name)
                   @@ "properties" :> D("$nodename" :> D([pattern |-> S("^foo$")]))
                   @@ "required" :> L(<<S("reg")>>))
            [] name = "e.yaml" ->
                 D("$id" :> id(name) @@ "required" :> L(<<S("reg")>>))
            [] name = "p.yaml" ->
                 D("$id" :> id(name)
                   @@ "properties" :> D([compatible |-> D([pattern |-> S("^v,c.*")])])
                   @@ "required" :> L(<<S("clocks")>>))]

\* The corpus of the files under schema_paths, keyed by $id
process_schemas(schema_paths) ==
    LET sch(name) == process_schema(SchemaFiles[name], name)
    IN [id \in {sch(name).v["$id"].v : name \in schema_paths} |->
          sch(CHOOSE name \in schema_paths : sch(name).v["$id"].v = id)]

-----------------------------------------------------------------------------
(* The dispatch of a subject node to the schemas of the corpus:            *)
(* schema_group.check_node (dt-validate.py), TestDTValidate.check_node     *)
(* (test/test-dt-validate.py) and DTValidator.iter_errors                  *)
(* (dtschema/validator.py).  A reported error is <<tag, error>>, the tag   *)
(* being the error's schema_file ("" for None).                            *)

\* Corpora: the loaded schemas alone (dt-validate.py), with the entry of
\* lib.py's make_compatible_schema, or with that of validator.py's
Corpora ==
    UNION {{process_schemas(paths),
            lib_make_compatible_schema(process_schemas(paths)),
            make_compatible_schema(process_schemas(paths))} :
           paths \in SUBSET DOMAIN SchemaFiles}

Compatibles == {<<"v,a">>, <<"v,b">>, <<"v,c">>, <<"v,zz">>, <<"v,a", "v,b">>}

\* Subject nodes: a 'compatible' list or none, and some of 'reg' and 'clocks'
Nodes ==
    LET cells == L(<<L(<<I(5)>>)>>)
        plain == {D([pr \in names |-> cells]) : names \in SUBSET {"reg", "clocks"}}
    IN plain \cup {Set(nd, "compatible", L([i \in 1..Len(c) |-> S(c[i])])) :
                     nd \in plain, c \in Compatibles}

NodeNames == {"foo", "bar"}

\* filter in id
filter_in(f, id) ==
    CASE f = "" -> TRUE
      [] f = "a.yaml" -> id = "http://devicetree.org/schemas/a.yaml#"
      [] f = "generated" -> id = "generated-compatibles"
      [] OTHER -> FALSE

select_matches(sch, nd) == is_valid(sch.v["select"], nd)

\* node_matched once any schema is there
AnySchema(schs, nd) == DOMAIN schs # {}

node_matched(schs, nd) == \E key \in DOMAIN schs : select_matches(schs[key], nd)

DispatchInit ==
    /\ schemas \in Corpora
    /\ node \in Nodes
    /\ errors = {}
    /\ unmatched = FALSE
    /\ filter \in {"", "a.yaml", "generated"}
    /\ checked = ""
    /\ FixupIdle /\ DimIdle /\ CmpIdle /\ LoadIdle /\ TypeIdle /\ RefIdle

\* dt-validate.py: every matching schema validates the node; a node no
\* schema matches is printed as 'failed to match any schema'
CheckNode(nodename) ==
    /\ checked = ""
    /\ filter = ""
    /\ node' = Set(node, "$nodename", S(nodename))
    /\ errors' = UNION {{<<"", e>> : e \in iter_errors(schemas[key], node', <<>>)} :
                        key \in {y \in DOMAIN schemas : select_matches(schemas[y], node')}}
    /\ unmatched' = ~node_matched(schemas, node')
    /\ checked' = "check_node"
    /\ UNCHANGED <<schemas, filter, fixupVars, dimVars, cmpVars, loadVars, typeVars, refVars>>

\* test-dt-validate.py with fail = False: validate() raises the first error
\* of a matching schema, and assertTrue(node_matched) fails otherwise
TestCheckNode(nodename) ==
    /\ checked = ""
    /\ filter = ""
    /\ node' = Set(node, "$nodename", L(<<S(nodename)>>))
    /\ LET all == UNION {{<<"", e>> : e \in iter_errors(schemas[key], node', <<>>)} :
                         key \in {y \in DOMAIN schemas : select_matches(schemas[y], node')}}
       IN IF all = {} THEN errors' = {} ELSE \E e \in all : errors' = {e}
    /\ unmatched' = ~node_matched(schemas, node')
    /\ checked' = "test_check_node"
    /\ UNCHANGED <<schemas, filter, fixupVars, dimVars, cmpVars, loadVars, typeVars, refVars>>

\* validator.py: DTValidator.iter_errors(instance, filter)
IterErrors ==
    /\ checked = ""
    /\ errors' = UNION {{<<id, e>> :
                           e \in iter_errors(D("if" :> schemas[id].v["select"]
                                               @@ "then" :> schemas[id]), node, <<>>)} :
                        id \in {y \in DOMAIN schemas :
                                  In("select", schemas[y]) /\ filter_in(filter, y)}}
    /\ checked' = "iter_errors"
    /\ UNCHANGED <<schemas, node, unmatched, filter, fixupVars, dimVars, cmpVars, loadVars, typeVars, refVars>>

\* dt-validate.py: check_trees gives every schema its '$select_validator', the
\* validator of its 'select' (written here as the select it is built from),
\* and hands the subtree to check_subtree, which checks its node
CheckTrees(nodename) ==
    /\ checked = ""
    /\ filter = ""
    /\ schemas' = [key \in DOMAIN schemas |->
                     Set(schemas[key], "$select_validator", schemas[key].v["select"])]
    /\ node' = Set(node, "$nodename", S(nodename))
    /\ errors' = UNION {{<<"", e>> : e \in iter_errors(schemas'[key], node', <<>>)} :
                        key \in {y \in DOMAIN schemas :
                                   is_valid(schemas'[y].v["$select_validator"], node')}}
    /\ unmatched' = ~\E key \in DOMAIN schemas :
                         is_valid(schemas'[key].v["$select_validator"], node')
    /\ checked' = "check_trees"
    /\ UNCHANGED <<filter, fixupVars, dimVars, cmpVars, loadVars, typeVars, refVars>>

DispatchNext ==
    \/ \E nodename \in NodeNames : CheckNode(nodename)
    \/ \E nodename \in NodeNames : TestCheckNode(nodename)
    \/ \E nodename \in NodeNames : CheckTrees(nodename)
    \/ IterErrors

SpecDispatch == DispatchInit /\ [][DispatchNext]_vars

\* No schema of the corpus has a selector the node satisfies
C7_NoSelectorMatches ==
    \A key \in DOMAIN schemas :
        iter_errors(schemas[key].v["select"], node, <<>>) # {}

C8_UnionTaggedById ==
    (checked = "iter_errors" /\ filter = "") =>
        errors = UNION {{<<schemas[key].v["$id"].v, e>> :
                           e \in iter_errors(schemas[key], node, <<>>)} :
                        key \in {y \in DOMAIN schemas :
                                   iter_errors(schemas[y].v["select"], node, <<>>) = {}}}

\* C15: dispatch never mutates the corpus: every call of check_trees,
\* check_node or iter_errors leaves the key set of the index and the content
\* of every schema in it as they were before the call.
C15_CorpusUnchanged == [][schemas' = schemas]_vars

-----------------------------------------------------------------------------
(* The comparison of two snapshots of the corpus (dtschema/cmp_schema.py). *)
(* A printed message is <<id, path, text, names>>: names are the           *)
(* properties the text ends with, {} where it names none.                  *)

RECURSIVE prop_generator(_, _)
prop_generator(sch, path) ==
    IF sch.k # "dict" THEN {}
    ELSE UNION {IF In(prop_key, sch)
                THEN UNION {{<<path \o <<prop_key, p>>, sch.v[prop_key].v[p]>>}
                            \cup prop_generator(sch.v[prop_key].v[p],
                                                path \o <<prop_key, p>>) :
                            p \in DOMAIN sch.v[prop_key].v}
                ELSE {} :
                prop_key \in {"properties", "patternProperties"}}

\* urllib.parse.urljoin(id, ref) for the $ids and the relative references of
\* the model: ref takes the place of the last segment of id's path
urljoin(id, ref) ==
    IF ref \in {"y.yaml", "y.yaml#/properties/a"}
    THEN "http://devicetree.org/schemas/" \o ref
    ELSE ref

\* '#/' in ref
has_fragment_path(ref) == ref = "http://devicetree.org/schemas/y.yaml#/properties/a"

_ref_to_id(id, ref) ==
    IF has_fragment_path(urljoin(id, ref)) THEN urljoin(id, ref)
    ELSE urljoin(id, ref) \o "#"

RECURSIVE _prop_in_schema(_, _, _)
_prop_in_schema(prop, sch, schs) ==
    \/ \E ps \in prop_generator(sch, <<>>) : ps[1][2] = prop
    \/ /\ In("allOf", sch)
       /\ \E i \in 1..Len(sch.v["allOf"].v) :
            LET e == sch.v["allOf"].v[i]
            IN /\ In("$ref", e)
               /\ LET ref_id == _ref_to_id(sch.v["$id"].v, e.v["$ref"].v)
                  IN /\ ref_id \in DOMAIN schs
                     /\ _prop_in_schema(prop, schs[ref_id], schs)
    \/ /\ In("$ref", sch)
       /\ LET ref_id == _ref_to_id(sch.v["$id"].v, sch.v["$ref"].v)
          IN /\ ref_id \in DOMAIN schs
             /\ _prop_in_schema(prop, schs[ref_id], schs)

check_removed_property(id, base, schs) ==
    {<<id, ps[1], "existing property removed", {}>> :
       ps \in {q \in prop_generator(base, <<>>) :
                 ~_prop_in_schema(q[1][2], schs[id], schs)}}

RECURSIVE schema_get_from_path(_, _)
schema_get_from_path(sch, path) ==
    IF path = <<>> THEN sch
    ELSE IF In(Head(path), sch)
    THEN schema_get_from_path(sch.v[Head(path)], Tail(path))
    ELSE None

check_new_items(id, base, new) ==
    {<<id, ps[1], "new required entry added", {}>> :
       ps \in {q \in prop_generator(new, <<>>) :
                 /\ In("minItems", q[2])
                 /\ LET base_min == schema_get_from_path(base, q[1] \o <<"minItems">>)
                    IN /\ base_min.k = "int"
                       /\ base_min.v # 0
                       /\ q[2].v["minItems"].v > base_min.v}}

\* _get_required without the members of allOf, oneOf and anyOf
OwnRequired(sch) ==
    IF In("required", sch) THEN {r.v : r \in Elems(sch.v["required"])} ELSE {}

_get_required(sch) ==
    UNION {UNION {IF In("required", m) THEN {r.v : r \in Elems(m.v["required"])} ELSE {} :
                  m \in Elems(sch.v[key])} :
           key \in {"allOf", "oneOf", "anyOf"} \cap DOMAIN sch.v}
    \cup (IF In("required", sch) THEN {r.v : r \in Elems(sch.v["required"])} ELSE {})

_check_required(id, base, new, path) ==
    IF base.k # "dict" \/ new.k # "dict" THEN {}
    ELSE LET base_req == _get_required(base)
             new_req == _get_required(new)
             diff == new_req \ base_req
         IN IF new_req = {} \/ diff = {} THEN {}
            ELSE {<<id, path, "new required properties added", diff>>}

check_required(id, base, new) ==
    _check_required(id, base, new, <<>>)
    \cup UNION {_check_required(id, schema_get_from_path(base, ps[1]), ps[2], ps[1]) :
                ps \in prop_generator(new, <<>>)}

\* The versions of x.yaml: its property 'a', its 'required' and what it
\* includes of y.yaml
VersionsOfX ==
    LET id == "$id" :> S("http://devicetree.org/schemas/x.yaml#")
        nested == D([properties |-> D([b |-> B(TRUE)])])
        props == {B(TRUE), nested, Set(nested, "required", L(<<S("b")>>)),
                  D([minItems |-> I(1)]), D([minItems |-> I(2)]), D([minItems |-> I(0)]),
                  D([minItems |-> I(1), maxItems |-> I(3)]),
                  D([minItems |-> I(1), maxItems |-> I(2)])}
        ref(r) == D("$ref" :> S(r))
        plain == {D(id)} \cup {D(id @@ "properties" :> D([a |-> pr])) : pr \in props}
        req == plain \cup {Set(d, "required", L(<<S("foo")>>)) : d \in plain}
    IN req
       \cup {Set(d, "allOf", L(<<m>>)) :
               d \in req,
               m \in {D([required |-> L(<<S("bar")>>)]), ref("y.yaml"),
                      ref("y.yaml#/properties/a")}}
       \cup {Set(d, "$ref", S("y.yaml")) : d \in req}

VersionsOfY ==
    {D("$id" :> S("http://devicetree.org/schemas/y.yaml#")
       @@ "properties" :> D([a |-> B(TRUE)]))}

\* DTValidator([directory]).schemas for a directory holding x.yaml and
\* possibly y.yaml
Snapshots ==
    LET x(doc) == process_schema(doc, "x.yaml")
        y(doc) == process_schema(doc, "y.yaml")
    IN {make_compatible_schema(xd.v["$id"].v :> xd) :
          xd \in {x(doc) : doc \in VersionsOfX}}
       \cup {make_compatible_schema((xd.v["$id"].v :> xd) @@ (yd.v["$id"].v :> yd)) :
               xd \in {x(doc) : doc \in VersionsOfX},
               yd \in {y(doc) : doc \in VersionsOfY}}

\* 'generated' in id
generated_in(id) == id = "generated-compatibles"

CmpInit ==
    /\ baseline \in Snapshots
    /\ newer \in Snapshots
    /\ printed = {}
    /\ compared = {}
    /\ FixupIdle /\ DimIdle /\ DispatchIdle /\ LoadIdle /\ TypeIdle /\ RefIdle

\* main: an id that is not in the baseline, or holds 'generated'
MainContinue(id) ==
    /\ DOMAIN newer # {} /\ DOMAIN baseline # {}
    /\ id \in DOMAIN newer \ compared
    /\ id \notin DOMAIN baseline \/ generated_in(id)
    /\ compared' = compared \cup {id}
    /\ UNCHANGED <<baseline, newer, printed, fixupVars, dimVars, dispatchVars, loadVars, typeVars, refVars>>

\* main: the three checks on an id of both corpora
MainCheck(id) ==
    /\ DOMAIN newer # {} /\ DOMAIN baseline # {}
    /\ id \in DOMAIN newer \ compared
    /\ ~(id \notin DOMAIN baseline \/ generated_in(id))
    /\ printed' = printed \cup check_required(id, baseline[id], newer[id])
                          \cup check_removed_property(id, baseline[id], newer)
                          \cup check_new_items(id, baseline[id], newer[id])
    /\ compared' = compared \cup {id}
    /\ UNCHANGED <<baseline, newer, fixupVars, dimVars, dispatchVars, loadVars, typeVars, refVars>>

CmpNext ==
    \/ \E id \in DOMAIN newer : MainContinue(id)
    \/ \E id \in DOMAIN newer : MainCheck(id)

SpecCmp == CmpInit /\ [][CmpNext]_vars

-----------------------------------------------------------------------------
(* Claims on the comparison.                                               *)

\* The required set of a schema: its own 'required' and the 'required' of
\* the members of its allOf, oneOf and anyOf; a value that is no mapping has
\* none
C9_Required(sch) ==
    IF sch.k # "dict" THEN {}
    ELSE {r.v : r \in UNION {Elems(sch.v["required"]) : key \in {"required"} \cap DOMAIN sch.v}}
         \cup {r.v : r \in UNION {UNION {Elems(m.v["required"]) :
                                         m \in {e \in Elems(sch.v[key]) : In("required", e)}} :
                                  key \in {"allOf", "oneOf", "anyOf"} \cap DOMAIN sch.v}}

\* The top level and the property paths of the new version of id
C9_Places(id) == {<<<<>>, newer[id]>>} \cup prop_generator(newer[id], <<>>)

C9_Printed(id, path, name) ==
    \E msg \in printed :
        /\ msg[1] = id /\ msg[2] = path
        /\ msg[3] = "new required properties added"
        /\ name \in msg[4]

\* C9: for every $id of both snapshots, a name in the new version's
\* required set, at the top level or at a property path, that the
\* baseline's required set at the same path does not hold is printed as a
\* new required property.
C9_NewRequiredFlagged ==
    \A id \in compared \cap DOMAIN baseline :
        \A place \in C9_Places(id) :
            \A name \in C9_Required(place[2])
                        \ C9_Required(schema_get_from_path(baseline[id], place[1])) :
                C9_Printed(id, place[1], name)

\* C9, amended: the same for the $ids that do not hold 'generated', at the
\* top level and at the property paths where the baseline has a mapping too.
C9_FlaggedWhereBaselineDeclares ==
    \A id \in {y \in compared \cap DOMAIN baseline : ~generated_in(y)} :
        \A place \in {q \in C9_Places(id) :
                        schema_get_from_path(baseline[id], q[1]).k = "dict"} :
            \A name \in C9_Required(place[2])
                        \ C9_Required(schema_get_from_path(baseline[id], place[1])) :
                C9_Printed(id, place[1], name)

C9_Witness ==
    LET id == "http://devicetree.org/schemas/x.yaml#"
        path == <<"properties", "a">>
    IN /\ id \in compared
       /\ id \in DOMAIN baseline
       /\ schema_get_from_path(baseline[id], path).k = "dict"
       /\ C9_Required(schema_get_from_path(baseline[id], path)) = {}
       /\ C9_Required(schema_get_from_path(newer[id], path)) = {"b"}
       /\ C9_Required(baseline[id]) = {}
       /\ C9_Required(newer[id]) = {"foo", "bar"}
       /\ <<id, path, "new required properties added", {"b"}>> \in printed
       /\ <<id, <<>>, "new required properties added", {"foo", "bar"}>> \in printed

\* A property name is reachable in a schema: declared at any depth, or
\* reachable in the schema an allOf member's $ref or the top-level $ref names
RECURSIVE C10_Reachable(_, _, _)
C10_Reachable(name, sch, schs) ==
    \/ \E ps \in prop_generator(sch, <<>>) : ps[1][Len(ps[1])] = name
    \/ \E r \in {e.v["$ref"].v : e \in {m \in {sch} \cup (IF In("allOf", sch)
                                                           THEN Elems(sch.v["allOf"])
                                                           ELSE {}) : In("$ref", m)}} :
        /\ _ref_to_id(sch.v["$id"].v, r) \in DOMAIN schs
        /\ C10_Reachable(name, schs[_ref_to_id(sch.v["$id"].v, r)], schs)

\* C10: for every $id of both snapshots, a property the baseline declares
\* at any depth whose name is no longer reachable in the new version is
\* printed as an existing property removed.
C10_RemovedFlagged ==
    \A id \in compared \cap DOMAIN baseline :
        \A ps \in prop_generator(baseline[id], <<>>) :
            ~C10_Reachable(ps[1][Len(ps[1])], newer[id], newer) =>
                <<id, ps[1], "existing property removed", {}>> \in printed

-----------------------------------------------------------------------------
(* The normalization of a whole schema document: fixup_schema              *)
(* (dtschema/fixups.py), as DTSchema.fixup runs it on a loaded file.       *)

\* The 'select' entries authors write
ExplicitSelects ==
    {B(TRUE), B(FALSE),
     D([required |-> L(<<S("compatible")>>)]),
     D([required |-> L(<<S("compatible")>>), description |-> S("text")]),
     D([required |-> L(<<S("compatible")>>),
        properties |-> D([compatible |-> D([const |-> S("v,a")])])]),
     D([required |-> L(<<S("compatible")>>),
        properties |-> D([compatible |-> D([contains |-> D([const |-> S("v,a")])])])]),
     D([properties |-> D("$nodename" :> D([pattern |-> S("^foo$")]))]),
     D([properties |-> D([reg |-> D([maxItems |-> I(1)])])]),
     D([properties |-> D([foo |-> D([const |-> I(5)])])]),
     D([required |-> L(<<S("interrupts")>>),
        properties |-> D([interrupts |-> B(TRUE)])])}

\* The 'properties' they write next to it
DocProperties ==
    {D([compatible |-> D([const |-> S("v,b")])]),
     D([compatible |-> D([const |-> S("syscon")])]),
     D("$nodename" :> D([pattern |-> S("^foo$")])),
     D([reg |-> D([maxItems |-> I(1)])]),
     D([compatible |-> D([enum |-> L(<<S("v,b"), S("v,a")>>)]),
        reg |-> D([maxItems |-> I(2)])])}

\* Properties that declare a matrix, under a name known as a variable matrix
\* and under another one
MatrixProperties ==
    LET ref == S("/schemas/types.yaml#/definitions/uint32-matrix")
    IN {D((name :> m)) : name \in {"fsl,pins", "qcom,board-id", "foo"},
                         m \in MatrixSchemas \cup {Set(x, "$ref", ref) : x \in MatrixSchemas}}

\* What a node schema says of the properties it does not list
Restrictions ==
    {EmptyDict} \cup {D((key :> val)) : key \in {"additionalProperties", "unevaluatedProperties"},
                                        val \in {B(FALSE), B(TRUE)}}
    \cup {D([additionalProperties |-> D([type |-> S("object")])]),
          D([additionalProperties |-> B(TRUE), unevaluatedProperties |-> B(FALSE)])}

\* Node schemas: with 'properties', 'patternProperties', both or none, and a
\* child node among the properties
NodeDocuments ==
    LET child == D([properties |-> D([reg |-> B(TRUE)])])
        props == {D([reg |-> B(TRUE)]),
                  D([reg |-> B(TRUE), status |-> D([const |-> S("okay")])]),
                  D([reg |-> B(TRUE), child |-> child]),
                  D([reg |-> B(TRUE), child |-> Set(child, "additionalProperties", B(FALSE))]),
                  D("clocks" :> B(TRUE) @@ "assigned-clock-rates" :> B(FALSE))}
        pats == {D("^x" :> B(TRUE)), D("pinctrl-[0-9]+" :> B(FALSE))}
        shapes == WithOptional(WithOptional({EmptyDict}, "properties", props),
                               "patternProperties", pats)
    IN {Merge(sh, r) : sh \in shapes, r \in Restrictions}

Documents ==
    LET id == D("$id" :> S("http://devicetree.org/schemas/a.yaml#"))
        plain == {id} \cup {Set(id, "properties", pr) : pr \in DocProperties}
    IN plain \cup {Set(d, "select", sel) : d \in plain, sel \in ExplicitSelects}
       \cup {Set(id, "properties", pr) : pr \in MatrixProperties}
       \cup {Merge(id, nd) : nd \in NodeDocuments}

NormalizeInit ==
    /\ propname = ""
    /\ orig \in Documents
    /\ schema = orig
    /\ first = None
    /\ older = None
    /\ applied = 0
    /\ DimIdle /\ DispatchIdle /\ CmpIdle /\ LoadIdle /\ TypeIdle /\ RefIdle

FixupSchema ==
    /\ applied = 0
    /\ schema' = fixup_schema(schema)
    /\ applied' = 1
    /\ UNCHANGED <<propname, orig, first, older, dimVars, dispatchVars, cmpVars, loadVars, typeVars, refVars>>

\* fixup_schema of dtschema/lib.py on the same document
LibFixupSchema ==
    /\ older = None
    /\ older' = lib_fixup_schema(orig)
    /\ UNCHANGED <<propname, orig, schema, first, applied, dimVars, dispatchVars, cmpVars,
                   loadVars, typeVars, refVars>>

NormalizeNext == FixupSchema \/ LibFixupSchema

SpecNormalize == NormalizeInit /\ [][NormalizeNext]_vars

\* C11: a schema's explicit 'select' is, after fixup_schema, structurally
\* identical to the one the author wrote.
C11_SelectVerbatim ==
    (applied = 1 /\ In("select", orig)) => schema.v["select"] = orig.v["select"]

\* C11, amended: add_select_schema keeps the explicit 'select', and after
\* fixup_schema it is the author's select as fixup_sub_schema normalizes it.
C11_SelectNormalized ==
    (applied = 1 /\ In("select", orig)) =>
        /\ add_select_schema(orig).v["select"] = orig.v["select"]
        /\ schema.v["select"] = fixup_sub_schema(orig.v["select"])

C11_Witness ==
    /\ applied = 1
    /\ In("select", orig)
    /\ orig.v["select"] = D([required |-> L(<<S("compatible")>>),
                             properties |-> D([compatible |-> D([const |-> S("v,a")])])])
    /\ schema.v["select"] =
         D([required |-> L(<<S("compatible")>>),
            properties |->
              D([compatible |-> D([items |-> L(<<D([const |-> S("v,a")])>>),
                                   type |-> S("array"),
                                   minItems |-> I(1), maxItems |-> I(1)])])])

\* The properties of the document whose declaration is a dict
C18_Declared ==
    IF In("properties", orig)
    THEN {name \in DOMAIN orig.v["properties"].v : orig.v["properties"].v[name].k = "dict"}
    ELSE {}

\* A matrix schema whose outer and inner range are both variable
C18_VariableMatrix(m) ==
    /\ _is_matrix_schema(m)
    /\ PropDim(m)[1][1] # PropDim(m)[1][2]
    /\ PropDim(m)[2][1] # PropDim(m)[2][2]

\* The node has lost 'items', 'minItems' and 'maxItems' and is of type 'array'
C18_Collapsed(r) ==
    /\ DOMAIN r.v \cap matrix_keys = {}
    /\ In("type", r) /\ r.v["type"] = S("array")

\* C18 (as the spec states it): a property node is collapsed exactly when it
\* is a matrix schema with both ranges variable and its name is not one of
\* 'fsl,pins' and 'qcom,board-id'; under these names it keeps its 'items' and
\* its bounds.
C18_ExceptedNamesKeep ==
    applied = 1 =>
        \A name \in C18_Declared :
            LET m == orig.v["properties"].v[name]
                r == schema.v["properties"].v[name]
            IN /\ C18_Collapsed(r) <=>
                    (C18_VariableMatrix(m) /\ name \notin {"fsl,pins", "qcom,board-id"})
               /\ name \in {"fsl,pins", "qcom,board-id"} =>
                    \A key \in matrix_keys : In(key, m) => In(key, r)

\* C18 (amended): under fixups.py a property named 'fsl,pins' or
\* 'qcom,board-id' is emptied, only its '$ref' being kept, and any other
\* property node is collapsed exactly when it is a matrix schema with both
\* ranges variable; under lib.py a property node is collapsed exactly when it
\* is a matrix schema and is named 'fsl,pins' or has both ranges variable.
C18_KnownNamesDropped ==
    /\ applied = 1 =>
          \A name \in C18_Declared :
              LET m == orig.v["properties"].v[name]
                  r == schema.v["properties"].v[name]
              IN IF name \in {"fsl,pins", "qcom,board-id"}
                 THEN r = Only(m, {"$ref"})
                 ELSE C18_Collapsed(r) <=> C18_VariableMatrix(m)
    /\ older # None =>
          \A name \in C18_Declared :
              LET m == orig.v["properties"].v[name]
                  r == older.v["properties"].v[name]
              IN C18_Collapsed(r) <=>
                     (_is_matrix_schema(m) /\ (name = "fsl,pins" \/ C18_VariableMatrix(m)))

\* 'fsl,pins' declared with a fixed outer range: emptied by fixups.py,
\* collapsed by lib.py
C18_Witness ==
    /\ applied = 1 /\ older # None
    /\ In("properties", orig) /\ In("fsl,pins", orig.v["properties"])
    /\ orig.v["properties"].v["fsl,pins"] =
           D([minItems |-> I(1), maxItems |-> I(1),
              items |-> D([minItems |-> I(0), maxItems |-> I(1)])])
    /\ schema.v["properties"].v["fsl,pins"] = EmptyDict
    /\ older.v["properties"].v["fsl,pins"] = D([type |-> S("array")])

C19_Bootph == {"bootph-pre-sram", "bootph-verify", "bootph-pre-ram",
               "bootph-some-ram", "bootph-all"}
C19_Implicit == {"phandle", "status", "secure-status", "$nodename"} \cup C19_Bootph

\* The node schemas of the document, each with what a normalized document res
\* has in its place: the document itself and its property 'child'
C19_Nodes(res) ==
    {<<orig, res>>}
    \cup (IF In("properties", orig) /\ In("child", orig.v["properties"])
          THEN {<<orig.v["properties"].v["child"], res.v["properties"].v["child"]>>}
          ELSE {})

C19_Properties(nd) == IF In("properties", nd) THEN DOMAIN nd.v["properties"].v ELSE {}

\* 'additionalProperties' or 'unevaluatedProperties' is explicitly true
C19_ExplicitTrue(nd) ==
    \/ In("additionalProperties", nd) /\ nd.v["additionalProperties"] = B(TRUE)
    \/ In("unevaluatedProperties", nd) /\ nd.v["unevaluatedProperties"] = B(TRUE)

\* C19 (as the spec states it): every node schema receives the implicit
\* properties unless its 'additionalProperties' or 'unevaluatedProperties' is
\* explicitly true; a node schema with neither keyword receives them.
C19_InjectedUnlessTrue ==
    applied = 1 =>
        \A nd \in C19_Nodes(schema) :
            ~C19_ExplicitTrue(nd[1]) => C19_Implicit \subseteq C19_Properties(nd[2])

\* C19 (amended): under fixups.py a node schema receives the nine implicit
\* properties exactly when it has 'additionalProperties' or
\* 'unevaluatedProperties' and neither is explicitly true; under lib.py it
\* receives phandle, status, secure-status and $nodename, and no bootph-*
\* property, exactly when it has 'properties', 'patternProperties' or
\* 'unevaluatedProperties' and neither keyword is explicitly true.  A node
\* schema that receives none keeps the properties it has.
C19_InjectedWhenRestricted ==
    /\ applied = 1 =>
          \A nd \in C19_Nodes(schema) :
              IF /\ DOMAIN nd[1].v \cap {"additionalProperties", "unevaluatedProperties"} # {}
                 /\ ~C19_ExplicitTrue(nd[1])
              THEN C19_Implicit \subseteq C19_Properties(nd[2])
              ELSE C19_Properties(nd[2]) \cap C19_Implicit
                       = C19_Properties(nd[1]) \cap C19_Implicit
    /\ older # None =>
          \A nd \in C19_Nodes(older) :
              IF /\ DOMAIN nd[1].v \cap {"properties", "patternProperties",
                                         "unevaluatedProperties"} # {}
                 /\ ~C19_ExplicitTrue(nd[1])
              THEN /\ C19_Implicit \ C19_Bootph \subseteq C19_Properties(nd[2])
                   /\ C19_Properties(nd[2]) \cap C19_Bootph
                          = C19_Properties(nd[1]) \cap C19_Bootph
              ELSE C19_Properties(nd[2]) \cap C19_Implicit
                       = C19_Properties(nd[1]) \cap C19_Implicit

\* A node schema with 'properties' and neither keyword: fixups.py injects
\* nothing, lib.py the four older implicit properties
C19_Witness ==
    /\ applied = 1 /\ older # None
    /\ DOMAIN orig.v = {"$id", "properties"}
    /\ orig.v["properties"] = D([reg |-> B(TRUE)])
    /\ schema.v["properties"] = D([reg |-> B(TRUE)])
    /\ C19_Properties(older) \cap C19_Implicit = C19_Implicit \ C19_Bootph

\* The declarations a node schema writes as a boolean, which no fixup of a
\* declaration touches: <<keyword, name>>
C25_Declared(nd) ==
    UNION {{<<key, pname>> : pname \in {y \in DOMAIN nd.v[key].v : nd.v[key].v[y].k = "bool"}} :
           key \in DOMAIN nd.v \cap {"properties", "patternProperties"}}

\* C25: the injection of implicit properties overwrites no declaration of the
\* author: every key of 'properties' and 'patternProperties' of a node schema
\* maps to the value the author wrote once the schema is normalized.
C25_NeverOverwritten ==
    /\ applied = 1 =>
          \A nd \in C19_Nodes(schema) : \A d \in C25_Declared(nd[1]) :
              nd[2].v[d[1]].v[d[2]] = nd[1].v[d[1]].v[d[2]]
    /\ older # None =>
          \A nd \in C19_Nodes(older) : \A d \in C25_Declared(nd[1]) :
              nd[2].v[d[1]].v[d[2]] = nd[1].v[d[1]].v[d[2]]

-----------------------------------------------------------------------------
(* Further claims on the normalizer (SpecFixup)                            *)

\* Array-of-arrays values: up to MaxItemsBound rows of up to MaxItemsBound cells
C17_Matrices ==
    LET rows == {L([i \in 1..n |-> I(5)]) : n \in 0..MaxItemsBound}
    IN UNION {{L(m) : m \in [1..n -> rows]} : n \in 0..MaxItemsBound}

\* _fixup_int_array_min_max_to_matrix has given the property node its 'oneOf'
C17_Synthesized == applied >= 1 /\ ~In("oneOf", orig) /\ In("oneOf", first)

\* C17: whenever _fixup_int_array_min_max_to_matrix synthesizes the
\* two-alternative 'oneOf', no array-of-arrays value satisfies both the
\* alternative of single-cell rows and the alternative of one row.
C17_Exclusive ==
    C17_Synthesized =>
        \A val \in C17_Matrices :
            ~(/\ is_valid(first.v["oneOf"].v[1], val)
              /\ is_valid(first.v["oneOf"].v[2], val))

\* The cell at row r, position c of a promoted schema, None where there is none
C28_Cell(res, r, c) ==
    IF /\ In("items", res) /\ res.v["items"].k = "list" /\ Len(res.v["items"].v) >= r
       /\ res.v["items"].v[r].k = "dict" /\ In("items", res.v["items"].v[r])
       /\ res.v["items"].v[r].v["items"].k = "list"
       /\ Len(res.v["items"].v[r].v["items"].v) >= c
    THEN res.v["items"].v[r].v["items"].v[c]
    ELSE None

\* The constraint key of element elem is there in the cell
C28_Kept(cell, elem, key) == cell.k = "dict" /\ In(key, cell) /\ cell.v[key] = elem.v[key]

\* C28: the promotion of 'reg' loses no constraint of an element: when
\* 'items' is a list of integer leaf constraints, every const, enum, minimum
\* and maximum of every element i is there after the fixup in the cell of
\* element i (cell i of the first row, or the cell of row i).
C28_ElementsKept ==
    (/\ applied >= 1 /\ propname = "reg"
     /\ In("items", orig) /\ orig.v["items"].k = "list"
     /\ \A i \in 1..Len(orig.v["items"].v) : _is_int_schema(orig.v["items"].v[i]))
    => \A i \in 1..Len(orig.v["items"].v) :
          \A key \in DOMAIN orig.v["items"].v[i].v \cap {"const", "enum", "minimum", "maximum"} :
              \/ C28_Kept(C28_Cell(first, 1, i), orig.v["items"].v[i], key)
              \/ C28_Kept(C28_Cell(first, i, 1), orig.v["items"].v[i], key)

-----------------------------------------------------------------------------
(* Further claims on the selector (SpecSelect)                             *)

\* The discriminating compatible strings of a schema with 'properties': the
\* strings under 'enum' and 'const' of its 'compatible', less the generic two
C12_Discriminating(sch) ==
    IF In("compatible", sch.v["properties"])
    THEN C2_EnumConstStrings(sch.v["properties"].v["compatible"]) \ {"syscon", "simple-mfd"}
    ELSE {}

\* C12: add_select_schema always leaves a 'select', by the first rule that
\* applies: an explicit select is kept; no 'properties' gives False; a
\* compatible-derived selector when a discriminating compatible string
\* remains, a '$nodename' constraint or not; a '$nodename' constraint other
\* than True gives a selector requiring '$nodename' with a copy of it; else
\* False.
C12_RulesInOrder ==
    applied = 1 =>
        /\ In("select", schema)
        /\ IF In("select", orig) THEN schema.v["select"] = orig.v["select"]
           ELSE IF ~In("properties", orig) THEN schema.v["select"] = B(FALSE)
           ELSE IF C12_Discriminating(orig) # {}
           THEN /\ schema.v["select"].k = "dict"
                /\ schema.v["select"].v["required"] = L(<<S("compatible")>>)
           ELSE IF /\ In("$nodename", orig.v["properties"])
                   /\ orig.v["properties"].v["$nodename"] # B(TRUE)
           THEN schema.v["select"] =
                    D([required |-> L(<<S("$nodename")>>),
                       properties |->
                         D("$nodename" :> orig.v["properties"].v["$nodename"])])
           ELSE schema.v["select"] = B(FALSE)

-----------------------------------------------------------------------------
(* Type inference: extract_types, get_prop_types and                       *)
(* make_property_type_cache (dtschema/validator.py).  props maps a         *)
(* property name to its list of facts; a fact is a dictionary with 'type'  *)
(* (None for no type), '$id' (the contributors) and, where set, 'regex'    *)
(* (written as the pattern the expression is compiled from) and 'dim'.     *)
(* The dictionaries of the model keep no order of their keys: the          *)
(* properties of a node are taken in one fixed order, 'properties' before  *)
(* 'patternProperties' and 'allOf' before 'oneOf' before 'anyOf'.          *)

MaxRefDepth == 3   \* local $refs followed one inside the other: a fourth revisits one of LocalRefs

\* An exception raised instead of a result
Raised(exc) == [k |-> "raised", v |-> exc]

TypesRef(t) == "/schemas/types.yaml#/definitions/" \o t

\* type_re.search(ref).group(0) on the $ref strings of the model, "" for no match
type_re_search(ref) ==
    IF \E t \in {"flag", "uint32", "uint32-array", "uint32-matrix", "int32", "string",
                 "phandle-array"} : ref = TypesRef(t)
    THEN CHOOSE t \in {"flag", "uint32", "uint32-array", "uint32-matrix", "int32",
                       "string", "phandle-array"} : ref = TypesRef(t)
    ELSE ""

\* re.search(r'\.yaml#?$', ref)
yaml_re_search(ref) == ref \in {"/schemas/x.yaml#", "/schemas/x.yaml", "y.yaml"}

\* ref.startswith('#/') and ref.split('/')[1:]
LocalRefs == {"#/properties/foo", "#/properties/bar", "#/$defs/a"}
sch_path(ref) ==
    CASE ref = "#/properties/foo" -> <<"properties", "foo">>
      [] ref = "#/properties/bar" -> <<"properties", "bar">>
      [] OTHER -> <<"$defs", "a">>

\* p.startswith(t) on the type names
TypeStartsWith(p, t) ==
    \/ p = t
    \/ <<p, t>> \in {<<"uint32-array", "uint32">>, <<"uint32-matrix", "uint32">>,
                     <<"int32-matrix", "int32">>, <<"string-array", "string">>}

\* p in t on the type names: p is part of t
TypeIn(p, t) ==
    \/ TypeStartsWith(t, p)
    \/ <<p, t>> \in {<<"int32", "uint32">>, <<"int32", "uint32-array">>,
                     <<"int32", "uint32-matrix">>, <<"int32-matrix", "uint32-matrix">>}

\* prop_type == 'phandle-array' or prop_type.endswith('-matrix')
IsMatrixType(t) == t \in {"phandle-array", "uint32-matrix", "int32-matrix"}

\* propname.startswith('$')
StartsWithDollar(pname) == pname \in {"$nodename", "$ref"}

\* The dimensions as the value stored under 'dim', and back
DimValue(d) == L(<<L(<<I(d[1][1]), I(d[1][2])>>), L(<<I(d[2][1]), I(d[2][2])>>)>>)
DimOf(val) == <<<<val.v[1].v[1].v, val.v[1].v[2].v>>, <<val.v[2].v[1].v, val.v[2].v[2].v>>>>

\* tmp_subschema = schema[p] for p in sch_path; a key that is missing raises
RECURSIVE ResolvePath(_, _)
ResolvePath(sch, path) ==
    IF path = <<>> THEN sch
    ELSE IF sch.k = "dict" /\ In(Head(path), sch) THEN ResolvePath(sch.v[Head(path)], Tail(path))
    ELSE Raised("KeyError")

\* prop_type of a declaration, "" for None
PropType(pname, subschema) ==
    IF \/ In("type", subschema) /\ subschema.v["type"] = S("object")
       \/ DOMAIN subschema.v \cap {"properties", "patternProperties", "additionalProperties"} # {}
    THEN "node"
    ELSE IF /\ In("$ref", subschema) /\ subschema.v["$ref"].k = "str"
            /\ type_re_search(subschema.v["$ref"].v) # ""
    THEN type_re_search(subschema.v["$ref"].v)
    ELSE IF In("type", subschema) /\ subschema.v["type"] = S("boolean") THEN "flag"
    ELSE IF In("items", subschema)
    THEN LET items == subschema.v["items"]
         IN IF \/ items.k = "list" /\ _is_string_schema(items.v[1])
               \/ items.k = "dict" /\ _is_string_schema(items)
            THEN "string-array"
            \* 'items' in items looks for the string among the elements of the
            \* list, which are schemas in every document of the model
            ELSE IF ~(items.k = "list" /\ Len(items.v) = 1 /\ S("items") \in Elems(items))
            THEN (IF pname \in {"foo-microvolt"} THEN "int32-matrix"
                  ELSE IF pname \in {"foo-hz"} THEN "uint32-matrix"
                  ELSE "")
            ELSE ""
    ELSE IF In("$ref", subschema) /\ subschema.v["$ref"].k = "str"
            /\ yaml_re_search(subschema.v["$ref"].v)
    THEN "node"
    ELSE ""

\* new_prop before the facts of the property are looked at
NewProp(schema_id, pname, subschema, is_pattern) ==
    LET prop_type == PropType(pname, subschema)
        base == D("type" :> (IF prop_type = "" THEN None ELSE S(prop_type))
                  @@ "$id" :> L(<<schema_id>>))
        withre == IF is_pattern THEN Set(base, "regex", S(pname)) ELSE base
    IN IF IsMatrixType(prop_type) THEN Set(withre, "dim", DimValue(PropDim(subschema)))
       ELSE withre

\* The facts without the one at index at
RemoveAt(facts, at) == SubSeq(facts, 1, at - 1) \o SubSeq(facts, at + 1, Len(facts))

\* Whether the loop over props[propname] ends at fact p
Stops(p, new_prop) ==
    \/ p.v["type"] = None
    \/ /\ In("dim", new_prop) /\ DimOf(new_prop.v["dim"]) # <<<<0, 0>>, <<0, 0>>>>
       /\ IsMatrixType(p.v["type"].v)
    \/ TypeStartsWith(p.v["type"].v, new_prop.v["type"].v)
    \/ TypeIn(p.v["type"].v, new_prop.v["type"].v)

\* The index of the first fact the loop ends at, 0 for none
StopAt(facts, new_prop) ==
    IF \A i \in 1..Len(facts) : ~Stops(facts[i], new_prop) THEN 0
    ELSE CHOOSE i \in 1..Len(facts) :
            /\ Stops(facts[i], new_prop)
            /\ \A j \in 1..(i - 1) : ~Stops(facts[j], new_prop)

\* p['dim'] after a matrix declaration with dimensions newdim
MergedDim(p, newdim) ==
    IF ~In("dim", p) THEN Set(p, "dim", DimValue(newdim))
    ELSE IF DimOf(p.v["dim"]) # newdim
    THEN Set(p, "dim", DimValue(_merge_dim(DimOf(p.v["dim"]), newdim)))
    ELSE p

\* for p in props[propname] and what follows it: what becomes of the list
\* when the loop ends at index at.  done tells that the function returns there.
RecordedAt(facts, new_prop, schema_id, at) ==
    IF at = 0 THEN [facts |-> Append(facts, new_prop), done |-> FALSE]
    ELSE IF facts[at].v["type"] = None
    THEN [facts |-> Append(RemoveAt(facts, at), new_prop), done |-> FALSE]
    ELSE IF /\ In("dim", new_prop) /\ DimOf(new_prop.v["dim"]) # <<<<0, 0>>, <<0, 0>>>>
            /\ IsMatrixType(facts[at].v["type"].v)
    THEN [facts |-> [facts EXCEPT ![at] = MergedDim(facts[at], DimOf(new_prop.v["dim"]))],
          done |-> TRUE]
    ELSE IF TypeStartsWith(facts[at].v["type"].v, new_prop.v["type"].v)
    THEN [facts |-> [facts EXCEPT ![at] =
                       IF schema_id \in Elems(facts[at].v["$id"]) THEN facts[at]
                       ELSE Set(facts[at], "$id",
                                L(Append(facts[at].v["$id"].v, schema_id)))],
          done |-> FALSE]
    ELSE [facts |-> Append(RemoveAt(facts, at),
                           Set(new_prop, "$id", L(<<schema_id>> \o facts[at].v["$id"].v))),
          done |-> FALSE]

Recorded(facts, new_prop, schema_id) ==
    RecordedAt(facts, new_prop, schema_id, StopAt(facts, new_prop))

\* The order the properties of a node are written in, where it is known
PropertyOrder ==
    <<"$nodename", "-hz$", "^.*$", "^[a-z][a-z0-9\\-]*$", "^foo-[0-9]+$", "bar", "clocks",
      "compatible", "foo", "foo-hz", "foo-microvolt", "reg">>

\* The keys of a dictionary in the fixed order they are taken in
RECURSIVE KeysInOrder(_)
KeysInOrder(keys) ==
    IF keys = {} THEN <<>>
    ELSE IF \E i \in 1..Len(PropertyOrder) : PropertyOrder[i] \in keys
    THEN SelectSeq(PropertyOrder, LAMBDA y : y \in keys)
         \o KeysInOrder(keys \ {PropertyOrder[i] : i \in 1..Len(PropertyOrder)})
    ELSE LET key == CHOOSE y \in keys : TRUE
         IN <<key>> \o KeysInOrder(keys \ {key})

RECURSIVE _extract_prop_type(_, _, _, _, _, _)
RECURSIVE _extract_subschema_types(_, _, _, _)
RECURSIVE ExtractMembers(_, _, _, _, _, _)
RECURSIVE ExtractProps(_, _, _, _, _, _)

\* for v in subschema[k]: _extract_prop_type(props, schema, propname, v, is_pattern)
ExtractMembers(props, sch, pname, members, is_pattern, depth) ==
    IF members = <<>> \/ props.k = "raised" THEN props
    ELSE ExtractMembers(_extract_prop_type(props, sch, pname, Head(members), is_pattern, depth),
                        sch, pname, Tail(members), is_pattern, depth)

\* for p, v in subschema[k].items(): _extract_prop_type(props, schema, p, v, ...)
ExtractProps(props, sch, decls, names, is_pattern, depth) ==
    IF names = <<>> \/ props.k = "raised" THEN props
    ELSE ExtractProps(_extract_prop_type(props, sch, Head(names), decls.v[Head(names)],
                                         is_pattern, depth),
                      sch, decls, Tail(names), is_pattern, depth)

\* The members of allOf, oneOf and anyOf, in this order
CondMembers(subschema) ==
    (IF In("allOf", subschema) /\ subschema.v["allOf"].k = "list"
     THEN subschema.v["allOf"].v ELSE <<>>)
    \o (IF In("oneOf", subschema) /\ subschema.v["oneOf"].k = "list"
        THEN subschema.v["oneOf"].v ELSE <<>>)
    \o (IF In("anyOf", subschema) /\ subschema.v["anyOf"].k = "list"
        THEN subschema.v["anyOf"].v ELSE <<>>)

\* The end of _extract_prop_type: the facts as the loop left them, then the
\* properties of a node
ExtractRecorded(props, sch, pname, subschema, rec, depth) ==
    IF rec.done THEN Set(props, pname, L(rec.facts))
    ELSE IF DOMAIN subschema.v
              \cap {"properties", "patternProperties", "additionalProperties"} # {}
    THEN _extract_subschema_types(Set(props, pname, L(rec.facts)), sch, subschema, depth)
    ELSE Set(props, pname, L(rec.facts))

\* _extract_prop_type from new_prop on
ExtractNewProp(props, sch, pname, subschema, new_prop, depth) ==
    IF new_prop.v["type"] = None
    THEN (IF props.v[pname].v = <<>> THEN Set(props, pname, L(<<new_prop>>)) ELSE props)
    ELSE ExtractRecorded(props, sch, pname, subschema,
                         Recorded(props.v[pname].v, new_prop, sch.v["$id"]), depth)

\* _extract_prop_type from props.setdefault(propname, []) on
ExtractSetDefault(props, sch, pname, subschema, is_pattern, depth) ==
    IF props.k = "raised" THEN props
    ELSE ExtractNewProp(SetDefault(props, pname, L(<<>>)), sch, pname, subschema,
                        NewProp(sch.v["$id"], pname, subschema, is_pattern), depth)

\* _extract_prop_type once the local $ref has been followed
ExtractAfterRef(props, sch, pname, subschema, is_pattern, depth) ==
    ExtractSetDefault(ExtractMembers(props, sch, pname, CondMembers(subschema),
                                     is_pattern, depth),
                      sch, pname, subschema, is_pattern, depth)

_extract_prop_type(props, sch, pname, subschema, is_pattern, depth) ==
    IF props.k = "raised" \/ subschema.k # "dict" \/ StartsWithDollar(pname) THEN props
    ELSE IF /\ In("$ref", subschema) /\ subschema.v["$ref"].k = "str"
            /\ subschema.v["$ref"].v \in LocalRefs
    THEN IF depth >= MaxRefDepth THEN Raised("RecursionError")
         ELSE IF ResolvePath(sch, sch_path(subschema.v["$ref"].v)).k = "raised"
         THEN Raised("KeyError")
         ELSE ExtractAfterRef(
                  _extract_prop_type(props, sch, pname,
                                     ResolvePath(sch, sch_path(subschema.v["$ref"].v)),
                                     is_pattern, depth + 1),
                  sch, pname, subschema, is_pattern, depth)
    ELSE ExtractAfterRef(props, sch, pname, subschema, is_pattern, depth)

\* for k in subschema.keys() & {'properties', 'patternProperties'}
ExtractUnder(props, sch, subschema, k, depth) ==
    IF In(k, subschema) /\ subschema.v[k].k = "dict"
    THEN ExtractProps(props, sch, subschema.v[k], KeysInOrder(DOMAIN subschema.v[k].v),
                      k = "patternProperties", depth)
    ELSE props

_extract_subschema_types(props, sch, subschema, depth) ==
    IF props.k = "raised" \/ subschema.k # "dict" THEN props
    ELSE ExtractUnder(
             ExtractUnder(
                 IF In("additionalProperties", subschema)
                 THEN _extract_subschema_types(props, sch,
                                               subschema.v["additionalProperties"], depth)
                 ELSE props,
                 sch, subschema, "properties", depth),
             sch, subschema, "patternProperties", depth)

\* extract_types on the schemas in the order of the corpus
RECURSIVE ExtractTypes(_, _)
ExtractTypes(props, schs) ==
    IF schs = <<>> THEN props
    ELSE ExtractTypes(_extract_subschema_types(props, Head(schs), Head(schs), 0), Tail(schs))

extract_types(schs) == ExtractTypes(EmptyDict, schs)

GenericPattern == "^[a-z][a-z0-9\\-]*$"
GenericPatterns == {GenericPattern, "^[a-zA-Z][a-zA-Z0-9\\-_]{0,63}$", "^.*$", ".*"}

\* re.search(r'[0-9a-zA-F-]{3}', key)
fixed_string_re_search(key) == key \in {"^foo-[0-9]+$", "-hz$"}

\* The facts less the node types and the missing types
TypedFacts(props) ==
    D([key \in DOMAIN props.v |->
         L(SelectSeq(props.v[key].v,
                     LAMBDA f : f.v["type"] # S("node") /\ f.v["type"] # None))])

\* Delete any entries now empty
FilledFacts(props) == Only(props, {key \in DOMAIN props.v : props.v[key].v # <<>>})

\* Split out pattern properties
SplitPatterns(props) ==
    [k |-> "types",
     v |-> <<Without(props, {key \in DOMAIN props.v : In("regex", props.v[key].v[1])}),
             Only(props, {key \in DOMAIN props.v :
                            /\ In("regex", props.v[key].v[1])
                            /\ fixed_string_re_search(key)})>>]

\* get_prop_types on the facts extract_types returns
PropTypesOf(all) ==
    IF all.k = "raised" THEN all
    ELSE IF GenericPattern \notin DOMAIN all.v THEN Raised("KeyError")
    ELSE SplitPatterns(FilledFacts(TypedFacts(Without(all, GenericPatterns))))

\* [props, pat_props] as the value of a "types" record, or the exception
\* get_prop_types ends with
get_prop_types(schs) == PropTypesOf(extract_types(schs))

\* The entry of the corpus made of a fact table, the facts less keys
GeneratedTypes(id, filename, props, keys) ==
    D("$id" :> S(id) @@ "$filename" :> S(filename) @@ "select" :> B(FALSE)
      @@ "properties" :>
           D([key \in DOMAIN props.v |->
                L([i \in 1..Len(props.v[key].v) |-> Without(props.v[key].v[i], keys)])]))

\* The corpus with the two entries of the facts types
TypeCache(schs, types) ==
    IF types.k = "raised" THEN types
    ELSE [k |-> "schemas",
          v |-> ("generated-types" :>
                   GeneratedTypes("generated-types", "Generated property types",
                                  types.v[1], {"$id"}))
                @@ ("generated-pattern-types" :>
                      GeneratedTypes("generated-pattern-types",
                                     "Generated pattern property types",
                                     types.v[2], {"regex", "$id"}))
                @@ schs]

\* DTValidator.make_property_type_cache: the corpus with its two entries as
\* the value of a "schemas" record, or the exception.  order is the order the
\* schemas were put into the corpus in.
make_property_type_cache(schs, order) ==
    TypeCache(schs, get_prop_types([i \in 1..Len(order) |-> schs[order[i]]]))

-----------------------------------------------------------------------------
(* Loading the schema files: process_schema and the loop of                *)
(* process_schemas (dtschema/validator.py, dtschema/lib.py) and            *)
(* DTValidator.check_schema (dtschema/lib.py).  A file is                  *)
(* [name, doc, meta]: meta is what the meta-schema check finds in doc      *)
(* ("ok" or "error"), or "unparsable" for a file that does not load.  The  *)
(* meta-schemas are data outside the program, so meta is an input.         *)
(* DTSchema is not part of the sources at hand: is_valid raises            *)
(* SchemaError when the check finds an error, and fixup is fixup_schema.   *)

MaxFiles == 3   \* the number of schema files handed to process_schemas

FileNames == [i \in 1..4 |-> CASE i = 1 -> "f1.yaml" [] i = 2 -> "f2.yaml"
                                [] i = 3 -> "f3.yaml" [] OTHER -> "f4.yaml"]

MetaSchemaId == S("http://devicetree.org/meta-schemas/core.yaml#")

\* A schema of common properties, with the generic pattern of property names
CoreSchema ==
    D("$id" :> S("http://devicetree.org/schemas/core.yaml#")
      @@ "properties" :> D("foo" :> D("$ref" :> S(TypesRef("uint32"))))
      @@ "patternProperties" :>
           D(GenericPattern :> D("type" :> S("object"))
             @@ "^foo-[0-9]+$" :> D("$ref" :> S(TypesRef("uint32-array")))))

\* The documents of the files: each names its meta-schema, but for the one
\* lib.py is also given without '$schema'
LoadDocs(ld) ==
    {Set(SchemaFiles[n], "$schema", MetaSchemaId) : n \in {"a.yaml", "n.yaml", "e.yaml"}}
    \cup {Set(CoreSchema, "$schema", MetaSchemaId)}
    \cup (IF ld = "lib.py" THEN {SchemaFiles["e.yaml"]} ELSE {})

LoadFiles(ld, i) ==
    {[name |-> FileNames[i], doc |-> d, meta |-> m] :
        d \in LoadDocs(ld), m \in {"ok", "error"}}
    \cup {[name |-> FileNames[i], doc |-> None, meta |-> "unparsable"]}

\* The outcome of a call: raised is the exception ("" for none), schema the
\* document as the call leaves it
CheckSchemaFixupFirst(doc, meta) ==
    [raised |-> IF ~In("$schema", doc) THEN "KeyError"
                ELSE IF meta = "error" THEN "SchemaError" ELSE "",
     schema |-> lib_fixup_schema(doc)]

\* DTValidator.check_schema (lib.py)
check_schema(doc, meta) ==
    IF ~In("$schema", doc) THEN [raised |-> "KeyError", schema |-> doc]
    ELSE IF meta = "error" THEN [raised |-> "SchemaError", schema |-> doc]
    ELSE [raised |-> "", schema |-> lib_fixup_schema(doc)]

\* What process_schema makes of a file: ret is the schema it returns (None
\* for nothing), mem the document in memory afterwards, msg the message
\* printed ("" for none)
Ignored(mem, msg) == [ret |-> None, mem |-> mem, msg |-> msg]

\* the tail of process_schema, after the check and the fixup
Returned(sch, filename) ==
    IF ~In("select", sch)
    THEN Ignored(sch, "warning: no 'select' found in schema found")
    ELSE LET s == Set(Set(sch, "type", S("object")), "$filename", S(filename))
         IN [ret |-> s, mem |-> s, msg |-> ""]

\* dtschema/lib.py
lib_process_schema(f) ==
    IF f.meta = "unparsable" THEN Ignored(None, "ignoring, error parsing file")
    ELSE LET c == check_schema(f.doc, f.meta)
         IN IF c.raised = "SchemaError"
            THEN Ignored(c.schema, "ignoring, error in schema")
            ELSE IF c.raised # ""
            THEN Ignored(c.schema, "ignoring, unknown error in schema (not a schema?)")
            ELSE Returned(c.schema, f.name)

\* dtschema/validator.py
ProcessSchemaFile(f) ==
    IF f.meta = "unparsable" THEN Ignored(None, "ignoring, error parsing file")
    ELSE IF f.meta = "error" THEN Ignored(f.doc, "ignoring, error in schema")
    ELSE Returned(fixup_schema(f.doc), f.name)

\* The body of the loop over the files: the corpus and the log after the
\* file's schema sch (None for nothing) has come back
Collected(f, r, skip_no_id) ==
    IF r.ret = None \/ (skip_no_id /\ ~In("$id", r.ret))
    THEN [schemas |-> schemas,
          log |-> IF r.msg = "" THEN log ELSE log \cup {<<f.name, r.msg>>}]
    ELSE IF r.ret.v["$id"].v \in DOMAIN schemas
    THEN [schemas |-> schemas,
          log |-> log \cup {<<f.name, "duplicate '$id' value">>}]
    ELSE [schemas |-> (r.ret.v["$id"].v :> r.ret) @@ schemas, log |-> log]

LoadInit ==
    /\ FixupIdle /\ DimIdle /\ DispatchIdle /\ CmpIdle /\ TypeIdle /\ RefIdle
    /\ loader \in {"validator.py", "lib.py"}
    /\ files \in {fs \in [1..MaxFiles -> UNION {LoadFiles(loader, i) : i \in 1..MaxFiles}] :
                    \A i \in 1..MaxFiles : fs[i].name = FileNames[i]}
    /\ docs = [i \in 1..MaxFiles |-> None]
    /\ done = {}
    /\ log = {}
    /\ built = FALSE

\* The next file of the loop
NextFile == Cardinality(done) + 1

\* validator.py: sch = process_schema(filename) and what follows it
ProcessSchemas ==
    /\ loader = "validator.py" /\ ~built
    /\ NextFile <= Len(files)
    /\ LET f == files[NextFile]
           r == ProcessSchemaFile(f)
           c == Collected(f, r, TRUE)
       IN /\ schemas' = c.schemas
          /\ log' = c.log
          \* whether DTSchema.fixup works on the loaded document or on a copy
          \* is not in the sources at hand
          /\ docs' \in {[docs EXCEPT ![NextFile] = m] : m \in {r.mem, f.doc}}
    /\ done' = done \cup {NextFile}
    /\ UNCHANGED <<fixupVars, dimVars, node, errors, unmatched, filter, checked,
                   cmpVars, files, loader, built,
                   typeVars, refVars>>

\* lib.py: sch = process_schema(filename) and what follows it
LibProcessSchemas ==
    /\ loader = "lib.py" /\ ~built
    /\ NextFile <= Len(files)
    /\ LET f == files[NextFile]
           r == lib_process_schema(f)
           c == Collected(f, r, FALSE)
       IN /\ schemas' = c.schemas
          /\ log' = c.log
          /\ docs' = [docs EXCEPT ![NextFile] = r.mem]
    /\ done' = done \cup {NextFile}
    /\ UNCHANGED <<fixupVars, dimVars, node, errors, unmatched, filter, checked,
                   cmpVars, files, loader, built,
                   typeVars, refVars>>

\* The $id of the schema file i has put into the corpus, "" for none
LoadedFrom(i) ==
    IF \E id \in DOMAIN schemas : schemas[id].v["$filename"] = S(files[i].name)
    THEN CHOOSE id \in DOMAIN schemas : schemas[id].v["$filename"] = S(files[i].name)
    ELSE ""

\* The $ids of the corpus in the order their schemas were put into it
CorpusOrder == SelectSeq([i \in 1..Len(files) |-> LoadedFrom(i)], LAMBDA id : id # "")

\* The corpus, the log and the flag after the type cache has been made
IndexMade(cache) ==
    IF cache.k = "raised"
    THEN [schemas |-> schemas, log |-> log \cup {<<"", cache.v>>}, built |-> FALSE]
    ELSE [schemas |-> make_compatible_schema(cache.v), log |-> log, built |-> TRUE]

\* The step of MakeIndex to the outcome made
IndexStep(made) ==
    /\ made.built \/ made.log # log
    /\ schemas' = made.schemas
    /\ log' = made.log
    /\ built' = made.built

\* DTValidator.__init__ (validator.py) once process_schemas has returned: the
\* type cache, then the schema of the compatibles.  An exception ends the
\* construction and is logged here under no file name.
MakeIndex ==
    /\ loader = "validator.py" /\ ~built
    /\ NextFile > Len(files)
    /\ IndexStep(IndexMade(make_property_type_cache(schemas, CorpusOrder)))
    /\ UNCHANGED <<fixupVars, dimVars, node, errors, unmatched, filter, checked,
                   cmpVars, files, docs, done, loader,
                   typeVars, refVars>>

\* lib.py: the end of process_schemas
LibMakeCompatibleSchema ==
    /\ loader = "lib.py" /\ ~built
    /\ NextFile > Len(files)
    /\ schemas' = lib_make_compatible_schema(schemas)
    /\ built' = TRUE
    /\ UNCHANGED <<fixupVars, dimVars, node, errors, unmatched, filter, checked,
                   cmpVars, files, docs, done, log, loader,
                   typeVars, refVars>>

LoadNext == ProcessSchemas \/ LibProcessSchemas \/ MakeIndex \/ LibMakeCompatibleSchema

SpecLoad == LoadInit /\ [][LoadNext]_vars

-----------------------------------------------------------------------------
(* Claims about loading                                                    *)

\* File i is one the meta-schema check rejects
C13_Rejected(i) == files[i].meta = "error" /\ In("$schema", files[i].doc)

\* File i passes the check and no file before it has done so with its $id
C13_Accepted(i) ==
    /\ files[i].meta = "ok" /\ In("$schema", files[i].doc)
    /\ \A j \in 1..(i - 1) :
         ~(/\ files[j].meta = "ok" /\ In("$schema", files[j].doc)
           /\ files[j].doc.v["$id"] = files[i].doc.v["$id"])

C13_InCorpus(i) ==
    \E id \in DOMAIN schemas : schemas[id].v["$filename"] = S(files[i].name)

\* C13: a schema that fails the meta-schema check is never normalized and
\* never enters the corpus: its document is the loaded one unmodified, no
\* entry of the corpus comes from its file, the rejection is logged, and the
\* files that pass the check are loaded all the same, before and after it.
C13_RejectedBeforeFixup ==
    \A i \in done :
        /\ C13_Rejected(i) =>
             /\ docs[i] = files[i].doc
             /\ ~C13_InCorpus(i)
             /\ <<files[i].name, "ignoring, error in schema">> \in log
        /\ C13_Accepted(i) =>
             /\ files[i].doc.v["$id"].v \in DOMAIN schemas
             /\ schemas[files[i].doc.v["$id"].v].v["$filename"] = S(files[i].name)

\* A rejected file between two files that are loaded, under lib.py
C13_Witness ==
    /\ loader = "lib.py"
    /\ done = {1, 2, 3}
    /\ C13_Accepted(1) /\ C13_InCorpus(1)
    /\ C13_Rejected(2) /\ docs[2] = files[2].doc /\ ~C13_InCorpus(2)
    /\ C13_Accepted(3) /\ C13_InCorpus(3)

\* The entries of the corpus that come from no file
C14_Synthesized ==
    {key \in DOMAIN schemas : \A i \in 1..Len(files) : schemas[key].v["$filename"] # S(files[i].name)}

\* C14: in every index a DTValidator has built from schema paths, each key
\* equals the '$id' of the entry it maps to, loaded or synthesized, and the
\* synthesized entries are exactly 'generated-compatibles' and
\* 'generated-types'.
C14_KeyedById ==
    (loader = "validator.py" /\ built) =>
        /\ \A key \in DOMAIN schemas : schemas[key].v["$id"] = S(key)
        /\ C14_Synthesized = {"generated-compatibles", "generated-types"}

-----------------------------------------------------------------------------
(* Type inference over a corpus: the loop of extract_types, get_prop_types *)
(* and the queries of a DTValidator on the facts                           *)
(* (dtschema/validator.py).                                                *)

MaxSchemas == 2   \* the number of schemas of a corpus

SchemaIds ==
    [i \in 1..4 |-> CASE i = 1 -> "http://devicetree.org/schemas/s1.yaml#"
                      [] i = 2 -> "http://devicetree.org/schemas/s2.yaml#"
                      [] i = 3 -> "http://devicetree.org/schemas/s3.yaml#"
                      [] OTHER -> "http://devicetree.org/schemas/s4.yaml#"]

\* A declaration of a type of types.yaml
TypeDecl(t) == D("$ref" :> S(TypesRef(t)))

\* The declarations of the property 'foo'
FooDecls ==
    {TypeDecl("uint32"), TypeDecl("int32"), TypeDecl("uint32-array"), TypeDecl("string"),
     D("$ref" :> S(TypesRef("uint32-matrix")) @@ "maxItems" :> I(2)
       @@ "items" :> D("minItems" :> I(1) @@ "maxItems" :> I(1))),
     D("$ref" :> S(TypesRef("uint32-matrix")) @@ "minItems" :> I(1) @@ "maxItems" :> I(3)),
     D("$ref" :> S(TypesRef("phandle-array")) @@ "items" :> D("maxItems" :> I(2))),
     EmptyDict,
     D("$ref" :> S("#/properties/foo")),
     D("$ref" :> S("#/properties/bar")),
     D("allOf" :> L(<<TypeDecl("uint32"), TypeDecl("uint32-array")>>)),
     D("type" :> S("object") @@ "properties" :> D("foo" :> TypeDecl("uint32")))}

\* The schemas of a corpus: 'foo' alone, 'foo' with a 'bar' it refers to or
\* that refers to it, and schemas with the generic pattern of property names
TypeSchemas ==
    {D("properties" :> D("foo" :> d)) : d \in FooDecls \ {D("$ref" :> S("#/properties/bar"))}}
    \cup {D("properties" :> D("foo" :> D("$ref" :> S("#/properties/bar")) @@ "bar" :> b)) :
            b \in {TypeDecl("uint32"), D("$ref" :> S("#/properties/foo"))}}
    \cup {D("properties" :> D("foo" :> d)
            @@ "patternProperties" :> D(GenericPattern :> EmptyDict)) :
            d \in {TypeDecl("uint32"), TypeDecl("uint32-array"), EmptyDict}}
    \cup {D("patternProperties" :>
              D(GenericPattern :> EmptyDict
                @@ "^foo-[0-9]+$" :>
                     D("$ref" :> S(TypesRef("uint32-matrix")) @@ "maxItems" :> I(2))))}

\* v[0]['regex'].search(propname) on the patterns and names of the model
regex_search(pattern, name) ==
    \/ pattern = "^foo-[0-9]+$" /\ name = "foo-0"
    \/ pattern = "-hz$" /\ name = "foo-hz"

PropertyNames == {"foo", "bar", "foo-0"}

\* self.props once make_property_type_cache has deleted the '$id's
ValidatorProps(types) ==
    D([key \in DOMAIN types.v[1].v |->
         L([i \in 1..Len(types.v[1].v[key].v) |-> Without(types.v[1].v[key].v[i], {"$id"})])])

\* The index of the first fact with 'dim', 0 for none
FirstDim(facts) ==
    IF \A i \in 1..Len(facts) : ~In("dim", facts[i]) THEN 0
    ELSE CHOOSE i \in 1..Len(facts) :
            In("dim", facts[i]) /\ \A j \in 1..(i - 1) : ~In("dim", facts[j])

\* The patterns of pat_props whose first fact gives dimensions for the name
DimPatterns(pat_props, pname) ==
    {key \in DOMAIN pat_props.v :
        /\ pat_props.v[key].v[1].v["type"] # None
        /\ In("dim", pat_props.v[key].v[1])
        /\ regex_search(key, pname)}

\* DTValidator.property_get_type_dim: the value stored under 'dim', or None
property_get_type_dim(types, pname) ==
    IF In(pname, ValidatorProps(types)) /\ FirstDim(ValidatorProps(types).v[pname].v) # 0
    THEN ValidatorProps(types).v[pname].v[FirstDim(ValidatorProps(types).v[pname].v)].v["dim"]
    ELSE IF DimPatterns(types.v[2], pname) # {}
    THEN types.v[2].v[CHOOSE key \in DimPatterns(types.v[2], pname) : TRUE].v[1].v["dim"]
    ELSE None

\* if dim and dim[0][0] == dim[0][1] or dim[1][0] == dim[1][1]
FixedDimensions(dimval) ==
    IF dimval = None THEN Raised("TypeError")
    ELSE B(\/ DimOf(dimval)[1][1] = DimOf(dimval)[1][2]
           \/ DimOf(dimval)[2][1] = DimOf(dimval)[2][2])

\* DTValidator.property_has_fixed_dimensions
property_has_fixed_dimensions(types, pname) ==
    FixedDimensions(property_get_type_dim(types, pname))

\* The sequence in reverse
Reversed(seq) == [i \in 1..Len(seq) |-> seq[Len(seq) + 1 - i]]

TypesInit ==
    /\ FixupIdle /\ DimIdle /\ DispatchIdle /\ CmpIdle /\ LoadIdle /\ RefIdle
    /\ tyCorpus \in {c \in [1..MaxSchemas -> {Set(s, "$id", S(SchemaIds[i])) :
                                                s \in TypeSchemas, i \in 1..MaxSchemas}] :
                       \A i \in 1..MaxSchemas : c[i].v["$id"] = S(SchemaIds[i])}
    /\ tyProps = EmptyDict
    /\ tyDone = 0
    /\ tyPermuted = None
    /\ tyTypes = None
    /\ tyFixed = None

\* extract_types: one turn of the loop over the schemas
ExtractTypesNext ==
    /\ tyDone < Len(tyCorpus)
    /\ tyProps' = _extract_subschema_types(tyProps, tyCorpus[tyDone + 1],
                                           tyCorpus[tyDone + 1], 0)
    /\ tyDone' = tyDone + 1
    /\ UNCHANGED <<tyCorpus, tyPermuted, tyTypes, tyFixed, fixupVars, dimVars,
                   dispatchVars, cmpVars, loadVars, refVars>>

\* extract_types on the same schemas, the last one first
ExtractPermuted ==
    /\ tyDone = Len(tyCorpus) /\ tyPermuted = None
    /\ tyPermuted' = extract_types(Reversed(tyCorpus))
    /\ UNCHANGED <<tyCorpus, tyProps, tyDone, tyTypes, tyFixed, fixupVars, dimVars,
                   dispatchVars, cmpVars, loadVars, refVars>>

\* get_prop_types on the schemas
GetPropTypes ==
    /\ tyPermuted # None /\ tyTypes = None
    /\ tyTypes' = get_prop_types(tyCorpus)
    /\ UNCHANGED <<tyCorpus, tyProps, tyDone, tyPermuted, tyFixed, fixupVars, dimVars,
                   dispatchVars, cmpVars, loadVars, refVars>>

\* DTValidator.property_has_fixed_dimensions(propname) on the facts made
PropertyHasFixedDimensions(pname) ==
    /\ tyTypes # None /\ tyTypes.k = "types"
    /\ tyFixed' = [propname |-> pname, ret |-> property_has_fixed_dimensions(tyTypes, pname)]
    /\ UNCHANGED <<tyCorpus, tyProps, tyDone, tyPermuted, tyTypes, fixupVars, dimVars,
                   dispatchVars, cmpVars, loadVars, refVars>>

TypesNext ==
    \/ ExtractTypesNext
    \/ ExtractPermuted
    \/ GetPropTypes
    \/ \E pname \in PropertyNames : PropertyHasFixedDimensions(pname)

SpecTypes == TypesInit /\ [][TypesNext]_vars

-----------------------------------------------------------------------------
(* Claims about type inference (SpecTypes)                                 *)

\* The declarations of a schema: <<name, declaration>> under 'properties' and
\* 'patternProperties'
C22_Declared(sch) ==
    UNION {{<<pname, sch.v[key].v[pname]>> : pname \in DOMAIN sch.v[key].v} :
           key \in DOMAIN sch.v \cap {"properties", "patternProperties"}}

\* Some fact of the property has the $id among its contributors
C22_Contributes(facts, pname, id) ==
    /\ In(pname, facts)
    /\ \E i \in 1..Len(facts.v[pname].v) : S(id) \in Elems(facts.v[pname].v[i].v["$id"])

\* C22: after extract_types has gone through a schema, the schema's $id is
\* among the contributors of some fact of every property it declares with an
\* inferred type, a matrix whose dimensions are merged into a fact included.
C22_ContributorsRecorded ==
    tyProps.k = "dict" =>
        \A i \in 1..tyDone : \A d \in C22_Declared(tyCorpus[i]) :
            PropType(d[1], d[2]) # "" => C22_Contributes(tyProps, d[1], SchemaIds[i])

\* T2 is the array or matrix refinement of the scalar T1
C23_Refines(T2, T1) == T1 # T2 /\ TypeStartsWith(T2, T1)

\* The contributors are listed once each
C23_Once(fact) ==
    \A i, j \in 1..Len(fact.v["$id"].v) : fact.v["$id"].v[i] = fact.v["$id"].v[j] => i = j

\* The typed facts of before whose type is no longer among the facts of after
C23_Gone(before, after) ==
    {p \in {before[i] : i \in 1..Len(before)} :
        /\ p.v["type"] # None
        /\ \A j \in 1..Len(after) : after[j].v["type"] # p.v["type"]}

\* C23: when a schema declares 'foo' with a type T2 and a fact of 'foo' goes,
\* the fact is of a scalar type T1 that T2 refines, and a T2 fact is there
\* whose contributors are the schema's $id and those of the T1 fact; every
\* fact lists each contributor once.
C23_Specialization ==
    [][(/\ tyDone' = tyDone + 1
        /\ tyProps.k = "dict" /\ tyProps'.k = "dict"
        /\ In("foo", tyProps) /\ In("foo", tyProps'))
       => /\ \A p \in C23_Gone(tyProps.v["foo"].v, tyProps'.v["foo"].v) :
                \E j \in 1..Len(tyProps'.v["foo"].v) :
                    LET f == tyProps'.v["foo"].v[j]
                    IN /\ f.v["type"] # None
                       /\ C23_Refines(f.v["type"].v, p.v["type"].v)
                       /\ Elems(f.v["$id"]) = Elems(p.v["$id"]) \cup {S(SchemaIds[tyDone'])}
          /\ \A j \in 1..Len(tyProps'.v["foo"].v) : C23_Once(tyProps'.v["foo"].v[j])]_vars

\* What the typed facts say of a property: its types, its dimensions by type
\* and its contributors by type
C26_Facts(facts) ==
    {[type |-> facts[i].v["type"],
      dim |-> IF In("dim", facts[i]) THEN facts[i].v["dim"] ELSE None,
      ids |-> Elems(facts[i].v["$id"])] :
        i \in {j \in 1..Len(facts) : facts[j].v["type"] # None}}

\* C26: the typed facts of a property do not depend on the order the schemas
\* are gone through in: types, dimensions and contributors are the same when
\* the last schema is taken first.
C26_OrderIndependent ==
    (tyPermuted # None /\ tyPermuted.k = "dict" /\ tyProps.k = "dict") =>
        /\ DOMAIN tyPermuted.v = DOMAIN tyProps.v
        /\ \A pname \in DOMAIN tyProps.v :
              C26_Facts(tyPermuted.v[pname].v) = C26_Facts(tyProps.v[pname].v)

\* C27: type inference returns on every schema, one whose property refers to
\* its own node by a local $ref, or to a node that refers back, included: it
\* never ends in the recursion error of an endless descent.
C27_Terminates ==
    /\ tyProps # Raised("RecursionError")
    /\ tyPermuted # Raised("RecursionError")

\* C29: get_prop_types raises for no corpus, one without the generic pattern
\* of property names included, and no property of its result has an empty
\* list of facts.
C29_Completes ==
    tyTypes # None =>
        /\ tyTypes.k = "types"
        /\ \A i \in 1..2 : \A pname \in DOMAIN tyTypes.v[i].v : tyTypes.v[i].v[pname].v # <<>>

\* C30: property_has_fixed_dimensions returns a boolean for every name: False
\* when no dimensions are recorded for it, and True only if an axis of the
\* recorded dimensions has its minimum equal to its maximum.
C30_ReturnsBoolean ==
    tyFixed # None =>
        /\ tyFixed.ret.k = "bool"
        /\ property_get_type_dim(tyTypes, tyFixed.propname) = None => tyFixed.ret = B(FALSE)
        /\ tyFixed.ret = B(TRUE) =>
              \E i \in 1..2 :
                 DimOf(property_get_type_dim(tyTypes, tyFixed.propname))[i][1]
                 = DimOf(property_get_type_dim(tyTypes, tyFixed.propname))[i][2]

-----------------------------------------------------------------------------
(* The resolver's stack of scopes: DTValidator.annotate_error,             *)
(* _check_schema_refs and check_schema_refs (dtschema/lib.py).  The        *)
(* resolver is jsonschema's RefResolver('', None): push_scope appends to   *)
(* the stack, pop_scope takes its last element off, and resolve(ref) joins *)
(* ref to the scope on top and returns the url with the schema there, or   *)
(* raises RefResolutionError.  An error is [schema_path, context, schema]. *)

MaxScopes == 4   \* calls are made while the stack is no deeper than this

SchemasUrl == "http://devicetree.org/schemas/"

\* The schemas a url resolves to
RefStore ==
    (SchemasUrl \o "t.yaml#/definitions/cell" :>
        D("maxItems" :> I(1) @@ "description" :> S("a cell")))
    @@ (SchemasUrl \o "t.yaml#/definitions/alias" :> D("$ref" :> S("#/definitions/cell")))

\* urljoin(self.resolution_scope, ref) on the scopes and references of the model
RefJoin(scope, ref) ==
    IF ref = "#/definitions/cell"
    THEN (IF scope \in {SchemasUrl \o "t.yaml#/definitions/alias",
                        SchemasUrl \o "t.yaml#/definitions/cell"}
          THEN SchemasUrl \o "t.yaml#/definitions/cell"
          ELSE IF scope = SchemasUrl \o "a.yaml#" THEN SchemasUrl \o "a.yaml#/definitions/cell"
          ELSE ref)
    ELSE IF scope = "" THEN ref
    ELSE SchemasUrl \o ref

\* self.resolver.resolve(ref): <<url, schema>> as the value of a "ref" record
resolve(stack, ref) ==
    IF RefJoin(stack[Len(stack)], ref) \in DOMAIN RefStore
    THEN [k |-> "ref",
          v |-> <<RefJoin(stack[Len(stack)], ref), RefStore[RefJoin(stack[Len(stack)], ref)]>>]
    ELSE Raised("RefResolutionError")

\* self.ID_OF(schema)
ID_OF(sch) == IF sch.k = "dict" /\ In("$id", sch) THEN sch.v["$id"].v ELSE ""

\* The course of annotate_error: the stack, ref_depth, the error's note and
\* schema_file ("" for None), the schema walked to and the exception raised
\* ("" for none)
Walking(stack, sch) ==
    [scopes |-> stack, ref_depth |-> 1, note |-> "", schema_file |-> "", at |-> sch,
     raised |-> ""]

\* while '$ref' in schema and isinstance(schema['$ref'], str)
RECURSIVE FollowRefs(_)
FollowRefs(w) ==
    IF w.at.k \notin {"dict", "list", "str"} THEN [w EXCEPT !.raised = "TypeError"]
    ELSE IF ~(w.at.k = "dict" /\ In("$ref", w.at) /\ w.at.v["$ref"].k = "str") THEN w
    ELSE IF resolve(w.scopes, w.at.v["$ref"].v).k = "raised"
    THEN [w EXCEPT !.raised = "RefResolutionError"]
    ELSE FollowRefs([w EXCEPT !.at = resolve(w.scopes, w.at.v["$ref"].v).v[2],
                              !.scopes = Append(w.scopes,
                                                resolve(w.scopes, w.at.v["$ref"].v).v[1]),
                              !.ref_depth = w.ref_depth + 1])

\* if '$id' in schema ...; schema = schema[p]; if isinstance(schema, dict) ...
StepInto(w, p) ==
    IF w.raised # "" THEN w
    ELSE IF ~(w.at.k = "dict" /\ In(p, w.at))
    THEN [w EXCEPT !.raised = IF w.at.k = "dict" THEN "KeyError" ELSE "TypeError",
                   !.schema_file = IF w.at.k = "dict" /\ In("$id", w.at)
                                      /\ w.at.v["$id"].k = "str"
                                   THEN w.at.v["$id"].v ELSE w.schema_file]
    ELSE [w EXCEPT !.at = w.at.v[p],
                   !.schema_file = IF In("$id", w.at) /\ w.at.v["$id"].k = "str"
                                   THEN w.at.v["$id"].v ELSE w.schema_file,
                   !.note = IF /\ w.at.v[p].k = "dict" /\ In("description", w.at.v[p])
                               /\ w.at.v[p].v["description"].k = "str"
                            THEN w.at.v[p].v["description"].v ELSE w.note]

\* for p in path
RECURSIVE WalkPath(_, _, _)
WalkPath(w, path, lastp) ==
    IF path = <<>> \/ w.raised # "" THEN w
    ELSE IF lastp # "properties" /\ Head(path) = "if" THEN WalkPath(w, Tail(path), lastp)
    ELSE WalkPath(StepInto(FollowRefs(w), Head(path)), Tail(path), Head(path))

\* while ref_depth > 0: self.resolver.pop_scope(), and the note of error.schema
PopScopes(w, error) ==
    IF w.raised # "" THEN w
    ELSE [w EXCEPT !.scopes = SubSeq(w.scopes, 1, Len(w.scopes) - w.ref_depth),
                   !.ref_depth = 0,
                   !.note = IF error.schema.k = "dict" /\ In("description", error.schema)
                            THEN error.schema.v["description"].v ELSE w.note]

\* annotate_error on an error without context
AnnotateOne(stack, error, sch, path) ==
    PopScopes(WalkPath(Walking(Append(stack, ID_OF(sch)), sch), path, ""), error)

\* for e in error.context: self.annotate_error(e, schema, path + e.schema_path)
RECURSIVE AnnotateContext(_, _, _, _)
AnnotateContext(w, context, sch, path) ==
    IF context = <<>> \/ w.raised # "" THEN w
    ELSE AnnotateContext(AnnotateOne(w.scopes, Head(context), sch,
                                     path \o Head(context).schema_path),
                         Tail(context), sch, path)

\* DTValidator.annotate_error: the errors of the context have none of their own
annotate_error(stack, error, sch, path) ==
    IF AnnotateContext(Walking(stack, sch), error.context, sch, path).raised # ""
    THEN AnnotateContext(Walking(stack, sch), error.context, sch, path)
    ELSE AnnotateOne(AnnotateContext(Walking(stack, sch), error.context, sch, path).scopes,
                     error, sch, path)

\* DTValidator._check_schema_refs: whether a resolve raises
RECURSIVE _check_schema_refs(_, _)
_check_schema_refs(stack, sch) ==
    IF sch.k = "dict" /\ In("$ref", sch)
    THEN resolve(stack, sch.v["$ref"].v).k = "raised"
    ELSE IF sch.k = "dict" THEN \E key \in DOMAIN sch.v : _check_schema_refs(stack, sch.v[key])
    ELSE IF sch.k = "list" THEN \E i \in 1..Len(sch.v) : _check_schema_refs(stack, sch.v[i])
    ELSE FALSE

\* check_id_path(filename, id): whether the mismatch is printed
check_id_path(filename, id) == id # SchemasUrl \o filename \o "#"

\* The stack once check_schema_refs has pushed the scope of the schema
Pushed(stack, sch) == IF ID_OF(sch) # "" THEN Append(stack, ID_OF(sch)) ELSE stack

\* DTValidator.check_schema_refs: the stack, what is printed and the exception
check_schema_refs(stack, filename, sch) ==
    [scopes |-> Pushed(stack, sch),
     printed |-> (IF _check_schema_refs(Pushed(stack, sch), sch)
                  THEN {"RefResolutionError"} ELSE {})
                 \cup (IF In("$id", sch) /\ check_id_path(filename, sch.v["$id"].v)
                       THEN {"$id: relative path/filename doesn't match"} ELSE {}),
     raised |-> IF In("$id", sch) THEN "" ELSE "KeyError"]

\* The properties of the schemas that are walked
RefProperties ==
    D("foo" :> D("$ref" :> S("t.yaml#/definitions/cell"))
      @@ "bar" :> D("$ref" :> S("t.yaml#/definitions/alias"))
      @@ "baz" :> D("$ref" :> S("missing.yaml#"))
      @@ "qux" :> D("maxItems" :> I(1) @@ "description" :> S("q")))

RefSchemas ==
    {D("$id" :> S(SchemasUrl \o "a.yaml#") @@ "properties" :> Only(RefProperties, names)) :
        names \in {{"foo"}, {"bar", "qux"}, {"baz", "qux"}, {"qux"}}}
    \cup {D("properties" :> Only(RefProperties, {"qux"}))}

SchemaPaths ==
    {<<"properties", pname, "maxItems">> : pname \in {"foo", "bar", "baz", "qux"}}
    \cup {<<"if", "properties", "qux", "maxItems">>, <<"properties", "foo">>}

\* The errors annotate_error is called on
SchemaErrors ==
    {[schema_path |-> p, context |-> <<>>, schema |-> s] :
        p \in SchemaPaths, s \in {I(1), D("description" :> S("e"))}}
    \cup {[schema_path |-> <<"properties", pname>>,
           context |-> <<[schema_path |-> <<"maxItems">>, context |-> <<>>, schema |-> I(1)]>>,
           schema |-> I(1)] : pname \in {"foo", "baz"}}

RefInit ==
    /\ FixupIdle /\ DimIdle /\ DispatchIdle /\ CmpIdle /\ LoadIdle /\ TypeIdle
    /\ scopes = <<"">>
    /\ annotated = None

\* self.annotate_error(error, schema, error.schema_path)
AnnotateError(error, sch) ==
    /\ Len(scopes) <= MaxScopes
    /\ scopes' = annotate_error(scopes, error, sch, error.schema_path).scopes
    /\ annotated' = [op |-> "annotate_error",
                     raised |-> annotate_error(scopes, error, sch, error.schema_path).raised,
                     note |-> annotate_error(scopes, error, sch, error.schema_path).note,
                     schema_file |->
                         annotate_error(scopes, error, sch, error.schema_path).schema_file,
                     printed |-> {},
                     depth |-> Len(scopes)]
    /\ UNCHANGED <<fixupVars, dimVars, dispatchVars, cmpVars, loadVars, typeVars>>

\* self.check_schema_refs(filename, schema)
CheckSchemaRefs(filename, sch) ==
    /\ Len(scopes) <= MaxScopes
    /\ scopes' = check_schema_refs(scopes, filename, sch).scopes
    /\ annotated' = [op |-> "check_schema_refs",
                     raised |-> check_schema_refs(scopes, filename, sch).raised,
                     note |-> "", schema_file |-> "",
                     printed |-> check_schema_refs(scopes, filename, sch).printed,
                     depth |-> Len(scopes)]
    /\ UNCHANGED <<fixupVars, dimVars, dispatchVars, cmpVars, loadVars, typeVars>>

RefNext ==
    \/ \E error \in SchemaErrors, sch \in RefSchemas : AnnotateError(error, sch)
    \/ \E filename \in {"a.yaml", "x.yaml"}, sch \in RefSchemas : CheckSchemaRefs(filename, sch)

SpecRefs == RefInit /\ [][RefNext]_vars

-----------------------------------------------------------------------------
(* Claims about the resolver (SpecRefs)                                    *)

\* C21: the stack of scopes is balanced: after any sequence of
\* annotate_error and check_schema_refs calls, each of which returns, normally
\* or by an exception, the stack is as deep as before the sequence, that is
\* as deep as the resolver was made with.
C21_Balanced == Len(scopes) = 1

-----------------------------------------------------------------------------
(* Further claims on the comparison (SpecCmp)                              *)

\* The bound key of the declaration at path in sch, None where there is none
C24_Bound(sch, path, key) == schema_get_from_path(sch, path \o <<key>>)

\* The paths of the properties of both versions of id whose array bounds the
\* new version tightens
C24_Tightened(id) ==
    {ps[1] : ps \in {q \in prop_generator(newer[id], <<>>) :
        /\ q[2].k = "dict"
        /\ \E b \in prop_generator(baseline[id], <<>>) : b[1] = q[1] /\ b[2].k = "dict"
        /\ \/ /\ C24_Bound(newer[id], q[1], "minItems").k = "int"
              /\ C24_Bound(baseline[id], q[1], "minItems").k = "int"
              /\ C24_Bound(newer[id], q[1], "minItems").v
                   > C24_Bound(baseline[id], q[1], "minItems").v
           \/ /\ C24_Bound(newer[id], q[1], "maxItems").k = "int"
              /\ C24_Bound(baseline[id], q[1], "maxItems").k = "int"
              /\ C24_Bound(newer[id], q[1], "maxItems").v
                   < C24_Bound(baseline[id], q[1], "maxItems").v}}

\* C24: the comparison flags every tightening of array bounds: for an $id of
\* both snapshots and a property path of both, a minItems above the
\* baseline's, whatever the baseline's, or a maxItems below the baseline's has
\* a diagnostic of check_new_items printed for the path.
C24_TighteningFlagged ==
    \A id \in compared \cap DOMAIN baseline :
        ~generated_in(id) =>
            \A path \in C24_Tightened(id) :
                <<id, path, "new required entry added", {}>> \in printed

====
